---------------------------- MODULE Spec2Model ----------------------------
(***************************************************************************)
(* A model of the stock-visualiser backend (src/app.py): the valuation     *)
(* functions, the session table, the portfolio repository and the batch    *)
(* price resolver.  Money amounts are integers (whole currency units), a   *)
(* percentage that the code leaves unrounded is the exact ratio num/den,   *)
(* and a percentage the code rounds to two decimals is an integer number   *)
(* of hundredths of a percent.                                             *)
(***************************************************************************)
EXTENDS Integers, Sequences, FiniteSets, Bags, TLC

VARIABLES
    sel,             \* select requests in flight: request -> its position and arguments
    price_rows,      \* table historical_prices, row by row: a bag of [ticker, date, close]
    cache_call,      \* the last Price Cache call: its arguments, tries and result
    stock_call,      \* the last quote request: what the provider said, and the answer
    request,         \* the body of the last request to a portfolio or registration handler
    unswept,         \* the session table of the same execution without the periodic sweep
    val_positions,   \* the position list handed to the valuation functions
    val_metrics,     \* result of calculate_portfolio_metrics_from_positions
    val_return,      \* result of calculate_portfolio_return
    users,           \* table users: id -> [username, password_hash]
    portfolios,      \* table portfolios: id -> [user_id, portfolio_name, positions, is_default]
    next_portfolio_id, \* the id the store gives the next inserted portfolio
    active_sessions, \* _active_sessions: token -> session
    now,             \* the wall clock, in seconds
    last_cleanup_time, \* _last_cleanup_time
    issued,          \* history: token -> the session create_session_token stored
    revoked,         \* history: tokens removed by revoke_session_token
    rejected,        \* history: issued tokens validate_session_token has refused
    ticks,           \* history: number of clock steps taken
    response,        \* the last response of a portfolio handler, with its request
    historical_prices, \* table historical_prices: ticker -> latest close
    b_request,       \* the batch-resolution call: its kind and the portfolios it reads
    b_pc,            \* where the call's main thread is
    b_user,          \* index of the user being processed
    b_ticker_list,   \* ticker_list of the current user
    b_i,             \* offset of the current batch in ticker_list
    b_futures,       \* futures of the current batch: ticker -> [state, price]
    b_price_cache,   \* price_cache of the current user
    b_j,             \* index of the portfolio being valued
    b_results,       \* one valuation per portfolio, in order
    b_fetches,       \* history: ticker -> calls of fetch_current_price_for_ticker
    b_quotes         \* history: ticker -> what the provider and the store answered

valVars == <<val_positions, val_metrics, val_return>>
storeVars == <<users, portfolios, next_portfolio_id>>
sessionVars == <<active_sessions, last_cleanup_time, issued, revoked, rejected>>
clockVars == <<now, ticks>>
cacheVars == <<price_rows, cache_call>>
sideVars == <<sel, cacheVars, stock_call, request, unswept>>
appVars == <<storeVars, sessionVars, clockVars, response, sideVars>>
batchVars == <<historical_prices, b_request, b_pc, b_user, b_ticker_list, b_i,
               b_futures, b_price_cache, b_j, b_results, b_fetches, b_quotes>>

vars == <<valVars, appVars, batchVars>>

(***************************************************************************)
(* Bounds of the model.                                                    *)
(***************************************************************************)
MaxLen == 2        \* longest generated position list
MaxShares == 1     \* shares range over 1..MaxShares
MaxPrice == 2      \* prices range over 0..MaxPrice
MaxUsers == 2      \* user records the store may hold
MaxPortfolioIds == 6 \* portfolio ids the store hands out
MaxTokens == 1     \* session tokens create_session_token hands out
MaxTicks == 2      \* clock steps
MaxRequests == 2   \* select requests in flight together
BatchSize == 2     \* batch_size of the resolver (20 in app.py), scaled down
MaxWorkers == BatchSize   \* max_workers = batch_size in app.py

\* Program constants.
CLEANUP_INTERVAL_SECONDS == 3600
SESSION_LIFETIME_SECONDS == 604800   \* timedelta(days=7)
MAX_PORTFOLIOS == 5
USERNAME_MIN == 3
USERNAME_MAX == 50
PASSWORD_MIN == 8

\* The position of the integration test (tests/test_integration.py).
ScenarioShares == 10
ScenarioPurchasePrice == 150
ScenarioCurrentPrice == 155

None == "None"     \* Python's None: no key, no value
NotRun == <<>>     \* the result slot of an operation that has not run yet

(***************************************************************************)
(* Python helpers.                                                         *)
(***************************************************************************)
\* dict.get(key, default)
Get(d, key, default) == IF key \in DOMAIN d THEN d[key] ELSE default

\* d.get(key) or alt: a missing key gives None, and None and 0 are falsy
GetOr(d, key, alt) == IF key \in DOMAIN d /\ d[key] # 0 THEN d[key] ELSE alt

\* round(num/den * 1, 2) expressed in hundredths: the integer nearest to
\* 100*num/den, ties to the even neighbour (den > 0)
Round2(num, den) ==
    LET n == num * 100
        q == n \div den
        r == n - q * den
    IN  IF 2 * r > den THEN q + 1
        ELSE IF 2 * r < den THEN q
        ELSE IF q % 2 = 0 THEN q ELSE q + 1

RECURSIVE SumSeq(_)
SumSeq(s) == IF s = <<>> THEN 0 ELSE Head(s) + SumSeq(Tail(s))

(***************************************************************************)
(* Valuation Engine.                                                       *)
(***************************************************************************)
\* calculate_portfolio_return, per position: (invested, current_value)
ReturnShares(pos) == Get(pos, "shares", 0)
ReturnPurchasePrice(pos) == Get(pos, "purchase_price", 0)
\* bug variant: a missing current_price read as 0 instead of purchase_price
ReturnCurrentPrice_NoFallback(pos) == Get(pos, "current_price", 0)
ReturnCurrentPrice(pos) == Get(pos, "current_price", ReturnPurchasePrice(pos))

calculate_portfolio_return(positions) ==
    IF Len(positions) = 0 THEN 0
    ELSE
        LET total_invested ==
                SumSeq([i \in 1..Len(positions) |->
                    ReturnShares(positions[i]) * ReturnPurchasePrice(positions[i])])
            total_current_value ==
                SumSeq([i \in 1..Len(positions) |->
                    ReturnShares(positions[i]) * ReturnCurrentPrice(positions[i])])
        IN  IF total_invested <= 0 THEN 0
            ELSE Round2((total_current_value - total_invested) * 100, total_invested)

\* calculate_portfolio_metrics_from_positions, per position
MetricsShares(pos) == Get(pos, "shares", 0)
MetricsPurchasePrice(pos) ==
    GetOr(pos, "purchasePrice", Get(pos, "purchase_price", 0))
MetricsCurrentPrice(pos) ==
    GetOr(pos, "current_price",
          Get(pos, "currentPrice", MetricsPurchasePrice(pos)))

\* bug variant: gain_loss with the operands swapped
calculate_portfolio_metrics_SwappedGain(positions) ==
    LET total_invested ==
            SumSeq([i \in 1..Len(positions) |->
                MetricsShares(positions[i]) * MetricsPurchasePrice(positions[i])])
        total_value ==
            SumSeq([i \in 1..Len(positions) |->
                MetricsShares(positions[i]) * MetricsCurrentPrice(positions[i])])
        gain_loss == total_invested - total_value
    IN  [total_value |-> total_value,
         total_invested |-> total_invested,
         gain_loss |-> gain_loss,
         return_percentage |->
            IF total_invested > 0
            THEN [num |-> gain_loss * 100, den |-> total_invested]
            ELSE [num |-> 0, den |-> 1]]

\* bug variant: the total_invested > 0 guard dropped
calculate_portfolio_metrics_NoGuard(positions) ==
    LET total_invested ==
            SumSeq([i \in 1..Len(positions) |->
                MetricsShares(positions[i]) * MetricsPurchasePrice(positions[i])])
        total_value ==
            SumSeq([i \in 1..Len(positions) |->
                MetricsShares(positions[i]) * MetricsCurrentPrice(positions[i])])
        gain_loss == total_value - total_invested
    IN  [total_value |-> total_value,
         total_invested |-> total_invested,
         gain_loss |-> gain_loss,
         return_percentage |-> [num |-> gain_loss * 100, den |-> total_invested]]

calculate_portfolio_metrics_from_positions(positions) ==
    LET total_invested ==
            SumSeq([i \in 1..Len(positions) |->
                MetricsShares(positions[i]) * MetricsPurchasePrice(positions[i])])
        total_value ==
            SumSeq([i \in 1..Len(positions) |->
                MetricsShares(positions[i]) * MetricsCurrentPrice(positions[i])])
        gain_loss == total_value - total_invested
    IN  [total_value |-> total_value,
         total_invested |-> total_invested,
         gain_loss |-> gain_loss,
         return_percentage |->
            IF total_invested > 0
            THEN [num |-> gain_loss * 100, den |-> total_invested]
            ELSE [num |-> 0, den |-> 1]]

(***************************************************************************)
(* Inputs of the valuation functions: positions as the frontend stores     *)
(* them (camelCase keys) and as the backend documents them (snake_case     *)
(* keys), with the current price absent or present.                        *)
(***************************************************************************)
Shares == 1..MaxShares
Prices == 0..MaxPrice

PurchaseKeys == {"purchase_price", "purchasePrice"}
CurrentKeys == {"current_price", "currentPrice"}

\* One position: shares, a purchase price under key pk and, unless ck is
\* None, a current price under key ck.
MkPosition(sh, pk, pp, ck, cp) ==
    IF ck = None
    THEN (pk :> pp) @@ [shares |-> sh]
    ELSE (pk :> pp) @@ (ck :> cp) @@ [shares |-> sh]

PositionsOfStyle(pk, ck) ==
    {MkPosition(sh, pk, pp, None, 0) : sh \in Shares, pp \in Prices}
    \cup {MkPosition(sh, pk, pp, ck, cp) : sh \in Shares, pp \in Prices, cp \in Prices}

SeqsUpTo(S, n) == UNION {[1..k -> S] : k \in 0..n}

ScenarioPosition ==
    [shares |-> ScenarioShares,
     purchase_price |-> ScenarioPurchasePrice,
     current_price |-> ScenarioCurrentPrice]

PositionLists ==
    UNION {SeqsUpTo(PositionsOfStyle(pk, ck), MaxLen) :
              pk \in PurchaseKeys, ck \in CurrentKeys}
    \cup {<<ScenarioPosition>>}

ValInit ==
    /\ val_positions \in PositionLists
    /\ val_metrics = NotRun
    /\ val_return = NotRun

ValIdle ==
    /\ val_positions = <<>>
    /\ val_metrics = NotRun
    /\ val_return = NotRun

ComputeMetrics ==
    /\ val_metrics = NotRun
    /\ val_metrics' = <<calculate_portfolio_metrics_from_positions(val_positions)>>
    /\ UNCHANGED <<val_positions, val_return, appVars, batchVars>>

ComputeReturn ==
    /\ val_return = NotRun
    /\ val_return' = <<calculate_portfolio_return(val_positions)>>
    /\ UNCHANGED <<val_positions, val_metrics, appVars, batchVars>>

(***************************************************************************)
(* Properties of the Valuation Engine.                                     *)
(***************************************************************************)
\* The fields of a position as the data model names them, under either
\* spelling of the key.
StatedPurchasePrice(pos) ==
    IF "purchase_price" \in DOMAIN pos THEN pos["purchase_price"]
    ELSE Get(pos, "purchasePrice", 0)
HasCurrentPrice(pos) ==
    "current_price" \in DOMAIN pos \/ "currentPrice" \in DOMAIN pos
StatedCurrentPrice(pos) ==
    IF "current_price" \in DOMAIN pos THEN pos["current_price"]
    ELSE Get(pos, "currentPrice", StatedPurchasePrice(pos))
\* as StatedCurrentPrice, but a current_price of 0 counts as absent
NonZeroCurrentPrice(pos) ==
    IF "current_price" \in DOMAIN pos /\ pos["current_price"] # 0
    THEN pos["current_price"]
    ELSE Get(pos, "currentPrice", StatedPurchasePrice(pos))

StatedInvested(positions) ==
    SumSeq([i \in 1..Len(positions) |->
        positions[i]["shares"] * StatedPurchasePrice(positions[i])])
StatedValue(positions) ==
    SumSeq([i \in 1..Len(positions) |->
        positions[i]["shares"] * StatedCurrentPrice(positions[i])])
NonZeroValue(positions) ==
    SumSeq([i \in 1..Len(positions) |->
        positions[i]["shares"] * NonZeroCurrentPrice(positions[i])])

\* num/den = gain / invested * 100
IsReturnOf(ratio, gain, invested) ==
    /\ ratio.den > 0
    /\ ratio.num * invested = gain * 100 * ratio.den

ScenarioHolds(m) ==
    /\ m.total_invested = 1500
    /\ m.total_value = 1550
    /\ m.gain_loss = 50
    /\ Round2(m.return_percentage.num, m.return_percentage.den) = 333

\* C6 as stated: compute_metrics returns total_invested = sum of
\* shares*purchase_price, total_value = sum of shares*current_price,
\* gain_loss = total_value - total_invested and return_percentage =
\* gain_loss / total_invested * 100 when total_invested > 0, for every
\* position list; the scenario position gives 1500, 1550, 50 and 3.33.
C6_AsStated ==
    val_metrics # NotRun =>
        LET m == val_metrics[1] IN
        /\ m.total_invested = StatedInvested(val_positions)
        /\ m.total_value = StatedValue(val_positions)
        /\ m.gain_loss = m.total_value - m.total_invested
        /\ m.total_invested > 0 =>
              IsReturnOf(m.return_percentage, m.gain_loss, m.total_invested)
        /\ val_positions = <<ScenarioPosition>> => ScenarioHolds(m)

\* C6 amended: the same, where a position whose current_price is 0 is valued
\* like one whose current_price is absent (at currentPrice when it has one,
\* else at its purchase price).
C6_MetricsFormula ==
    val_metrics # NotRun =>
        LET m == val_metrics[1] IN
        /\ m.total_invested = StatedInvested(val_positions)
        /\ m.total_value = NonZeroValue(val_positions)
        /\ m.gain_loss = m.total_value - m.total_invested
        /\ m.total_invested > 0 =>
              IsReturnOf(m.return_percentage, m.gain_loss, m.total_invested)
        /\ val_positions = <<ScenarioPosition>> => ScenarioHolds(m)

\* a list with a priced position and a position whose current_price is 0
C6_Witness ==
    /\ val_metrics # NotRun
    /\ Len(val_positions) = 2
    /\ val_metrics[1].total_invested > 0
    /\ val_metrics[1].gain_loss > 0
    /\ \E i \in 1..Len(val_positions) :
          /\ "current_price" \in DOMAIN val_positions[i]
          /\ val_positions[i]["current_price"] = 0
          /\ StatedPurchasePrice(val_positions[i]) > 0

\* C7: the valuation functions never divide by zero: the denominator of the
\* returned ratio is never 0, a list whose total invested amount is 0 (the
\* empty list included) gets return_percentage 0 from both functions, and
\* compute_metrics on the empty list returns invested, value and gain_loss 0.
C7_NoDivideByZero ==
    /\ val_metrics # NotRun =>
          LET m == val_metrics[1] IN
          /\ m.return_percentage.den # 0
          /\ StatedInvested(val_positions) = 0 => m.return_percentage.num = 0
          /\ val_positions = <<>> =>
                m.total_invested = 0 /\ m.total_value = 0 /\ m.gain_loss = 0
    /\ (val_return # NotRun /\ StatedInvested(val_positions) = 0) =>
          val_return[1] = 0

C7_Witness ==
    /\ val_metrics # NotRun
    /\ val_return # NotRun
    /\ Len(val_positions) > 0
    /\ StatedInvested(val_positions) = 0
    /\ StatedValue(val_positions) > 0

\* The list with every absent current price written out as the purchase
\* price, and the list without the positions that carry no current price.
FillAbsent(positions) ==
    [i \in 1..Len(positions) |->
        IF HasCurrentPrice(positions[i]) THEN positions[i]
        ELSE ("current_price" :> StatedPurchasePrice(positions[i])) @@ positions[i]]
PricedOnly(positions) == SelectSeq(positions, HasCurrentPrice)
HasSnakePurchase(positions) ==
    \A i \in 1..Len(positions) : "purchase_price" \in DOMAIN positions[i]

\* C8: a position whose current price is absent is valued at its purchase
\* price and adds 0 to gain_loss, whatever the other positions are: both
\* functions give the result they give when the absent prices are written
\* out as the purchase prices, and the gain_loss of compute_metrics is that
\* of the priced positions alone.
C8_AbsentPriceIsPurchasePrice ==
    /\ val_metrics # NotRun =>
          /\ val_metrics[1] =
                calculate_portfolio_metrics_from_positions(FillAbsent(val_positions))
          /\ val_metrics[1].gain_loss =
                calculate_portfolio_metrics_from_positions(
                    PricedOnly(val_positions)).gain_loss
          /\ val_metrics[1].total_value =
                calculate_portfolio_metrics_from_positions(
                    PricedOnly(val_positions)).total_value
                + StatedInvested(val_positions)
                - StatedInvested(PricedOnly(val_positions))
    /\ (val_return # NotRun /\ HasSnakePurchase(val_positions)) =>
          val_return[1] = calculate_portfolio_return(FillAbsent(val_positions))

\* a list mixing a priced position with an unpriced one, both functions run
C8_Witness ==
    /\ val_metrics # NotRun
    /\ val_return # NotRun
    /\ HasSnakePurchase(val_positions)
    /\ Len(val_positions) = 2
    /\ Len(PricedOnly(val_positions)) = 1
    /\ val_return[1] # 0
    /\ \E i \in 1..2 : /\ ~HasCurrentPrice(val_positions[i])
                       /\ StatedPurchasePrice(val_positions[i]) > 0

\* Enriched positions: the snake_case fields, every current price resolved.
IsEnriched(positions) ==
    \A i \in 1..Len(positions) :
        DOMAIN positions[i] = {"shares", "purchase_price", "current_price"}

\* C9 as stated: on the same enriched positions (a resolved price of 0
\* included) calculate_portfolio_return and
\* calculate_portfolio_metrics_from_positions give the same return percentage
\* up to 2-decimal rounding.
C9_SameReturnPercentage ==
    (val_metrics # NotRun /\ val_return # NotRun /\ IsEnriched(val_positions)) =>
        Round2(val_metrics[1].return_percentage.num,
               val_metrics[1].return_percentage.den) = val_return[1]

(***************************************************************************)
(* The store (users, portfolios) and the session table.                    *)
(***************************************************************************)
UserIds == 1..MaxUsers
PortfolioIds == 1..MaxPortfolioIds
Tokens == 1..MaxTokens

\* Request inputs.  A password is the five facts validate_strong_password
\* reads off it.
Usernames == {"alice", "bob", "al"}
PortfolioNames == {"Main", ""}
StrongPassword == [length |-> 9, upper |-> TRUE, lower |-> TRUE,
                   digit |-> TRUE, special |-> TRUE]
WeakPassword == [length |-> 9, upper |-> FALSE, lower |-> TRUE,
                 digit |-> TRUE, special |-> TRUE]
Passwords == {StrongPassword, WeakPassword}
\* registration requests: the well-formed ones, and one per validation rule
RegistrationRequests ==
    {<<"alice", StrongPassword, "Main">>, <<"bob", StrongPassword, "Main">>,
     <<"al", StrongPassword, "Main">>, <<"alice", WeakPassword, "Main">>,
     <<"alice", StrongPassword, "">>}
LoginRequests ==
    {<<"alice", StrongPassword>>, <<"bob", StrongPassword>>, <<"alice", WeakPassword>>}

\* the validator without its last rule
validate_strong_password_NoSpecial(password) ==
    /\ ~(password.length < PASSWORD_MIN)
    /\ password.upper
    /\ password.lower
    /\ password.digit

validate_strong_password(password) ==
    /\ ~(password.length < PASSWORD_MIN)
    /\ password.upper
    /\ password.lower
    /\ password.digit
    /\ password.special

\* sha256: distinct passwords give distinct digests
hash_password(password) == <<"sha256", password>>

\* dict / table helpers
Without(f, k) == [x \in DOMAIN f \ {k} |-> f[x]]
With(f, k, v) == (k :> v) @@ f

\* no portfolio handler has answered yet
\* no Price Cache call and no quote request has been made
NoCall == [op |-> "none"]
\* no select request has arrived
Requests == 1..MaxRequests
SelIdle == [r \in Requests |->
               [pc |-> "idle", user_id |-> 0, token |-> 0, portfolio_id |-> 0, status |-> 0]]
NoResponse == [op |-> "none", user_id |-> 0, portfolio_id |-> 0, status |-> 0,
               body |-> <<>>]

AppInit ==
    /\ users = <<>>
    /\ portfolios = <<>>
    /\ next_portfolio_id = 1
    /\ active_sessions = <<>>
    /\ now = CLEANUP_INTERVAL_SECONDS
    /\ last_cleanup_time = 0
    /\ issued = <<>>
    /\ revoked = {}
    /\ rejected = {}
    /\ ticks = 0
    /\ response = NoResponse
    /\ sel = SelIdle
    /\ price_rows = EmptyBag
    /\ cache_call = NoCall
    /\ stock_call = NoCall
    /\ request = NoCall
    /\ unswept = <<>>

\* rows of table portfolios with user_id = user_id
PortfoliosOf(table, user_id) == {p \in DOMAIN table : table[p].user_id = user_id}
DefaultsOf(table, user_id) == {p \in PortfoliosOf(table, user_id) : table[p].is_default}

(***************************************************************************)
(* Session/Auth Manager.                                                   *)
(***************************************************************************)
\* cleanup_expired_sessions, run by before_request ahead of every handler
CleanupDue == ~(now - last_cleanup_time < CLEANUP_INTERVAL_SECONDS)
\* bug variant: a sweep that is due empties the table
cleanup_expired_sessions_All(sessions) ==
    IF CleanupDue THEN <<>> ELSE sessions
cleanup_expired_sessions(sessions) ==
    IF CleanupDue
    THEN [t \in {t \in DOMAIN sessions : ~(now > sessions[t].expires_at)} |-> sessions[t]]
    ELSE sessions
before_request ==
    last_cleanup_time' = IF CleanupDue THEN now ELSE last_cleanup_time

\* create_session_token: the table with the new entry.  secrets.token_urlsafe
\* never repeats a token: the new token is the next unused one.
NextToken == Cardinality(DOMAIN issued) + 1
NewSession(user_id, username, active_portfolio_id) ==
    [user_id |-> user_id,
     username |-> username,
     active_portfolio_id |-> active_portfolio_id,
     created_at |-> now,
     expires_at |-> now + SESSION_LIFETIME_SECONDS]
create_session_token(sessions, user_id, username, active_portfolio_id) ==
    With(sessions, NextToken, NewSession(user_id, username, active_portfolio_id))

\* validate_session_token: whether it returns the session, and the table it
\* leaves behind
\* bug variant: the expiry check left out
SessionHonored_NoExpiry(sessions, token) == token \in DOMAIN sessions
SessionHonored(sessions, token) ==
    /\ token \in DOMAIN sessions
    /\ ~(now > sessions[token].expires_at)
\* bug variant: an honored token gets a fresh lifetime
validate_session_token_Sliding(sessions, token) ==
    IF token \in DOMAIN sessions /\ ~SessionHonored(sessions, token)
    THEN Without(sessions, token)
    ELSE IF token \in DOMAIN sessions
    THEN [sessions EXCEPT ![token].expires_at = now + SESSION_LIFETIME_SECONDS]
    ELSE sessions
validate_session_token(sessions, token) ==
    IF token \in DOMAIN sessions /\ ~SessionHonored(sessions, token)
    THEN Without(sessions, token)
    ELSE sessions

\* revoke_session_token
revoke_session_token(sessions, token) ==
    IF token \in DOMAIN sessions THEN Without(sessions, token) ELSE sessions

\* the history a validate_session_token call leaves
RecordValidate(sessions, token) ==
    rejected' = IF token \in DOMAIN issued /\ ~SessionHonored(sessions, token)
                THEN rejected \cup {token} ELSE rejected

\* The part every authenticated handler starts with: before_request, then
\* validate_session_token on the cookie's token.
SessionsAtHandler == cleanup_expired_sessions(active_sessions)
Authenticated(token) == SessionHonored(SessionsAtHandler, token)
SessionsAfterAuth(token) == validate_session_token(SessionsAtHandler, token)

(***************************************************************************)
(* Handlers.  Every store call (.execute()) can raise; `fail` numbers the  *)
(* store call of the handler that raises, 0 when none does.                *)
(***************************************************************************)
NoPortfolio == 0   \* active_portfolio_id = None

\* POST /api/portfolio/create (registration): store calls 1 select users,
\* 2 insert user, 3 insert portfolio
create_portfolio(username, password, name, fail) ==
    LET valid == /\ ~(Len(username) < USERNAME_MIN)
                 /\ ~(Len(username) > USERNAME_MAX)
                 /\ validate_strong_password(password)
                 /\ name # ""
        exists == \E u \in DOMAIN users : users[u].username = username
        user_inserted == valid /\ fail # 1 /\ ~exists /\ fail # 2
        portfolio_inserted == user_inserted /\ fail # 3
        user_id == Cardinality(DOMAIN users) + 1
        password_hash == hash_password(password)
    IN  /\ fail # 0 => valid /\ (exists => fail = 1)
        /\ user_inserted => user_id \in UserIds
        /\ portfolio_inserted =>
              next_portfolio_id \in PortfolioIds /\ NextToken \in Tokens
        /\ before_request
        /\ users' = IF user_inserted
                    THEN With(users, user_id,
                              [username |-> username, password_hash |-> password_hash])
                    ELSE users
        /\ portfolios' =
              IF portfolio_inserted
              THEN With(portfolios, next_portfolio_id,
                        [user_id |-> user_id, portfolio_name |-> name,
                         positions |-> <<>>, is_default |-> TRUE])
              ELSE portfolios
        /\ next_portfolio_id' =
              IF portfolio_inserted THEN next_portfolio_id + 1 ELSE next_portfolio_id
        /\ active_sessions' =
              IF portfolio_inserted
              THEN create_session_token(SessionsAtHandler, user_id, username,
                                        next_portfolio_id)
              ELSE SessionsAtHandler
        /\ issued' = IF portfolio_inserted
                     THEN With(issued, NextToken,
                               NewSession(user_id, username, next_portfolio_id))
                     ELSE issued
        /\ UNCHANGED <<revoked, rejected, clockVars, valVars, batchVars>>

\* POST /api/portfolio/login: store calls 1 authenticate_user,
\* 2 get_default_portfolio (get_user_portfolios only reads)
login_portfolio(username, password, fail) ==
    \E user_id \in DOMAIN users :
        /\ users[user_id].username = username
        /\ users[user_id].password_hash = hash_password(password)
        /\ fail # 1
        /\ NextToken \in Tokens
        /\ \E active_portfolio_id \in
                  IF fail = 2 \/ DefaultsOf(portfolios, user_id) = {}
                  THEN {NoPortfolio}
                  ELSE DefaultsOf(portfolios, user_id) :
              /\ active_sessions' =
                    create_session_token(SessionsAtHandler, user_id, username,
                                         active_portfolio_id)
              /\ issued' = With(issued, NextToken,
                                NewSession(user_id, username, active_portfolio_id))
        /\ before_request
        /\ UNCHANGED <<storeVars, revoked, rejected, clockVars, valVars, batchVars>>

\* POST /api/portfolio/logout
logout_portfolio(token) ==
    /\ before_request
    /\ active_sessions' = revoke_session_token(SessionsAtHandler, token)
    /\ revoked' = IF token \in DOMAIN SessionsAtHandler
                  THEN revoked \cup {token} ELSE revoked
    /\ UNCHANGED <<storeVars, issued, rejected, clockVars, valVars, batchVars>>

\* GET /api/user/portfolios: validates the token and reads
get_user_portfolios_endpoint(token) ==
    /\ before_request
    /\ RecordValidate(SessionsAtHandler, token)
    /\ active_sessions' = SessionsAfterAuth(token)
    /\ UNCHANGED <<storeVars, issued, revoked, clockVars, valVars, batchVars>>

\* create_portfolio_for_user: the portfolios table it leaves.  Store calls
\* 1 select portfolios of the user, 2 select the user, 3 insert
\* bug variant: no portfolio limit
create_portfolio_for_user_NoLimit(user_id, portfolio_name, fail) ==
    LET portfolio_count == Cardinality(PortfoliosOf(portfolios, user_id))
    IN  IF fail # 0
        THEN portfolios
        ELSE With(portfolios, next_portfolio_id,
                  [user_id |-> user_id, portfolio_name |-> portfolio_name,
                   positions |-> <<>>, is_default |-> (portfolio_count = 0)])
create_portfolio_for_user(user_id, portfolio_name, fail) ==
    LET portfolio_count == Cardinality(PortfoliosOf(portfolios, user_id))
    IN  IF fail # 0 \/ portfolio_count >= MAX_PORTFOLIOS
        THEN portfolios
        ELSE With(portfolios, next_portfolio_id,
                  [user_id |-> user_id, portfolio_name |-> portfolio_name,
                   positions |-> <<>>, is_default |-> (portfolio_count = 0)])

\* POST /api/user/portfolios
create_user_portfolio_endpoint(token, portfolio_name, fail) ==
    LET name_ok == /\ portfolio_name # ""
                   /\ ~(Len(portfolio_name) < 1 \/ Len(portfolio_name) > 50)
        table == IF Authenticated(token) /\ name_ok
                 THEN create_portfolio_for_user(SessionsAtHandler[token].user_id,
                                                portfolio_name, fail)
                 ELSE portfolios
    IN  /\ fail # 0 => Authenticated(token) /\ name_ok
        /\ table # portfolios => next_portfolio_id \in PortfolioIds
        /\ before_request
        /\ RecordValidate(SessionsAtHandler, token)
        /\ active_sessions' = SessionsAfterAuth(token)
        /\ portfolios' = table
        /\ next_portfolio_id' =
              IF table # portfolios THEN next_portfolio_id + 1 ELSE next_portfolio_id
        /\ UNCHANGED <<users, issued, revoked, clockVars, valVars, batchVars>>

\* delete_portfolio: the portfolios tables it can leave (the row that
\* select(...).limit(1) returns is any row of the user).  Store calls
\* 1 get_portfolio_by_id, 2 count, 3 delete, 4 select first, 5 update
\* bug variant: the user's only portfolio can be deleted
delete_portfolio_NoLastCheck(user_id, portfolio_id, fail) ==
    LET mine == PortfoliosOf(portfolios, user_id)
        deleted == Without(portfolios, portfolio_id)
        remaining == PortfoliosOf(deleted, user_id)
    IN  IF \/ fail = 1 \/ portfolio_id \notin mine
           \/ fail = 2
           \/ fail = 3
        THEN {portfolios}
        ELSE IF ~portfolios[portfolio_id].is_default \/ fail = 4
                \/ remaining = {} \/ fail = 5
        THEN {deleted}
        ELSE {[deleted EXCEPT ![first].is_default = TRUE] : first \in remaining}
\* bug variant: no other portfolio is made the default
delete_portfolio_NoPromote(user_id, portfolio_id, fail) ==
    LET mine == PortfoliosOf(portfolios, user_id)
        deleted == Without(portfolios, portfolio_id)
    IN  IF \/ fail = 1 \/ portfolio_id \notin mine
           \/ fail = 2 \/ Cardinality(mine) <= 1
           \/ fail = 3
        THEN {portfolios}
        ELSE {deleted}
delete_portfolio(user_id, portfolio_id, fail) ==
    LET mine == PortfoliosOf(portfolios, user_id)
        deleted == Without(portfolios, portfolio_id)
        remaining == PortfoliosOf(deleted, user_id)
    IN  IF \/ fail = 1 \/ portfolio_id \notin mine
           \/ fail = 2 \/ Cardinality(mine) <= 1
           \/ fail = 3
        THEN {portfolios}
        ELSE IF ~portfolios[portfolio_id].is_default \/ fail = 4
                \/ remaining = {} \/ fail = 5
        THEN {deleted}
        ELSE {[deleted EXCEPT ![first].is_default = TRUE] : first \in remaining}

\* DELETE /api/user/portfolios/<portfolio_id>
delete_portfolio_endpoint(token, portfolio_id, fail) ==
    /\ fail # 0 => Authenticated(token)
    /\ fail > 1 => portfolio_id \in DOMAIN portfolios
    /\ fail > 3 => portfolios[portfolio_id].is_default
    /\ before_request
    /\ RecordValidate(SessionsAtHandler, token)
    /\ active_sessions' = SessionsAfterAuth(token)
    /\ portfolios' \in
          IF Authenticated(token)
          THEN delete_portfolio(SessionsAtHandler[token].user_id, portfolio_id, fail)
          ELSE {portfolios}
    /\ UNCHANGED <<users, next_portfolio_id, issued, revoked, clockVars, valVars, batchVars>>

\* set_active_portfolio: whether it returns True, and the table it leaves.
\* Store calls 1 get_portfolio_by_id, 2 clear the defaults, 3 set the default
set_active_portfolio_ok(user_id, portfolio_id, fail) ==
    portfolio_id \in PortfoliosOf(portfolios, user_id) /\ fail = 0
set_active_portfolio(user_id, portfolio_id, fail) ==
    LET cleared == [p \in DOMAIN portfolios |->
                       IF portfolios[p].user_id = user_id
                       THEN [portfolios[p] EXCEPT !.is_default = FALSE]
                       ELSE portfolios[p]]
    IN  IF fail = 1 \/ portfolio_id \notin PortfoliosOf(portfolios, user_id) \/ fail = 2
        THEN portfolios
        ELSE IF fail = 3
        THEN cleared
        ELSE [cleared EXCEPT ![portfolio_id].is_default = TRUE]

\* PUT /api/user/portfolios/<portfolio_id>/select
select_portfolio_endpoint(token, portfolio_id, fail) ==
    LET user_id == SessionsAtHandler[token].user_id
    IN  /\ fail # 0 => Authenticated(token)
        /\ before_request
        /\ RecordValidate(SessionsAtHandler, token)
        /\ IF Authenticated(token)
           THEN /\ portfolios' = set_active_portfolio(user_id, portfolio_id, fail)
                /\ active_sessions' =
                      IF set_active_portfolio_ok(user_id, portfolio_id, fail)
                      THEN [SessionsAtHandler EXCEPT
                               ![token].active_portfolio_id = portfolio_id]
                      ELSE SessionsAtHandler
           ELSE /\ portfolios' = portfolios
                /\ active_sessions' = SessionsAfterAuth(token)
        /\ UNCHANGED <<users, next_portfolio_id, issued, revoked, clockVars, valVars, batchVars>>

\* The clock moves on between requests.
ClockSteps == {1, SESSION_LIFETIME_SECONDS}
Tick(d) ==
    /\ ticks < MaxTicks
    /\ ticks' = ticks + 1
    /\ now' = now + d
    /\ UNCHANGED <<storeVars, sessionVars, valVars, batchVars>>

(***************************************************************************)
(* Batch price resolution: get_all_portfolio_returns,                      *)
(* update_all_portfolio_returns and background_update_portfolio_metrics    *)
(* run the same steps: collect the tickers, fetch them batch by batch on a *)
(* thread pool, then value every portfolio with the prices found.          *)
(***************************************************************************)
\* Python objects whose type the code depends on
PyNone == [type |-> "NoneType"]
PyDict(items) == [type |-> "dict", items |-> items]
\* a str that does not spell a number
PyText(s) == [type |-> "str", text |-> s]
\* float(obj): TypeError for an object that is not a number or a string,
\* ValueError for a string that does not spell a number
float(obj) ==
    IF obj.type \in {"float", "int", "str"} /\ "value" \in DOMAIN obj
    THEN [raised |-> FALSE, value |-> obj.value]
    ELSE [raised |-> TRUE]

\* str.upper() on the tickers of the model
Upper(ticker) == IF ticker \in {"aapl", "Aapl"} THEN "AAPL" ELSE ticker

LivePrice == 3     \* 'c' of a quote that carries a price
CachedClose == 2   \* a close stored in historical_prices

\* what requests.get(.../quote, timeout=5) can do: a priced quote, a quote of
\* 0, a body without 'c', a refusal, an exception (timeout, connection)
QuoteResponses ==
    {[raised |-> FALSE, status_code |-> 200, json |-> [c |-> LivePrice]],
     [raised |-> FALSE, status_code |-> 200, json |-> [c |-> 0]],
     [raised |-> FALSE, status_code |-> 200, json |-> [t |-> 0]],
     [raised |-> FALSE, status_code |-> 429, json |-> [t |-> 0]],
     [raised |-> TRUE, status_code |-> 0, json |-> [t |-> 0]]}

\* the live branch returns the quote's price
LiveQuoteAccepted(resp) ==
    /\ ~resp.raised
    /\ resp.status_code = 200
    /\ "c" \in DOMAIN resp.json
    /\ resp.json["c"] > 0

\* get_last_close_price: a dict {'date', 'close'} of the latest row, or None
\* (no row, or the store call failed)
get_last_close_price(ticker, store_up) ==
    IF store_up /\ Upper(ticker) \in DOMAIN historical_prices
    THEN PyDict([date |-> "latest", close |-> historical_prices[Upper(ticker)]])
    ELSE PyNone

\* fetch_current_price_for_ticker, given what the provider and the store answer
fetch_current_price_for_ticker(ticker, resp, store_up) ==
    LET last_close == get_last_close_price(Upper(ticker), store_up)
        last_close_float == float(last_close)
    IN  IF LiveQuoteAccepted(resp)
        THEN resp.json["c"]
        ELSE IF /\ last_close.type # "NoneType"
                /\ ~last_close_float.raised
                /\ last_close_float.value > 0
        THEN last_close_float.value
        ELSE 0

\* portfolios_response.data of one user: a sequence of portfolios, each the
\* sequence of its positions
Position(ticker) == [ticker |-> ticker, shares |-> 1, purchase_price |-> 1]
Positions(tickers) == [i \in 1..Len(tickers) |-> Position(tickers[i])]

\* two portfolios holding AAPL and one holding MSFT
ScenarioRequest ==
    [kind |-> "returns",
     users |-> << <<Positions(<<"AAPL">>), Positions(<<"AAPL">>),
                    Positions(<<"MSFT">>)>> >>]
\* the calls of the model: kind "returns" values with
\* calculate_portfolio_return for the session's user, kind "metrics" is the
\* background job over users_to_process
BatchRequests ==
    {ScenarioRequest,
     [kind |-> "returns",
      users |-> << <<Positions(<<"aapl", "MSFT">>),
                     Positions(<<"AAPL", "GOOG", "">>)>> >>],
     [kind |-> "returns", users |-> << <<>> >>],
     [kind |-> "returns", users |-> << <<Positions(<<>>)>> >>],
     [kind |-> "metrics",
      users |-> << <<Positions(<<"AAPL">>)>>,
                   <<Positions(<<"AAPL", "MSFT">>), Positions(<<>>)>> >>]}
HistoricalTables ==
    {[t \in S |-> CachedClose] : S \in SUBSET {"AAPL", "MSFT"}}

Range(s) == {s[i] : i \in 1..Len(s)}
Perms(S) == {s \in [1..Cardinality(S) -> S] : Range(s) = S}

\* STEP 1: the set of upper-cased, non-empty tickers
\* bug variant: the tickers taken as written
all_tickers_NoUpper(portfolios_data) ==
    UNION {{portfolios_data[p][i].ticker : i \in 1..Len(portfolios_data[p])}
              : p \in 1..Len(portfolios_data)} \ {""}
all_tickers(portfolios_data) ==
    UNION {{Upper(portfolios_data[p][i].ticker) : i \in 1..Len(portfolios_data[p])}
              : p \in 1..Len(portfolios_data)} \ {""}

\* STEP 3: the positions with a ticker, each with its current_price
EnrichedPosition(position, price_cache) ==
    [ticker |-> position.ticker,
     shares |-> position.shares,
     purchase_price |-> position.purchase_price,
     current_price |-> Get(price_cache, Upper(position.ticker),
                           Get(position, "purchase_price", 0))]
enriched_positions(positions, price_cache) ==
    LET kept == SelectSeq(positions, LAMBDA pos : Upper(pos.ticker) # "")
    IN  [i \in 1..Len(kept) |-> EnrichedPosition(kept[i], price_cache)]

BatchInit ==
    /\ historical_prices \in HistoricalTables
    /\ b_request \in BatchRequests
    /\ b_pc = "start"
    /\ b_user = 1
    /\ b_ticker_list = <<>>
    /\ b_i = 0
    /\ b_futures = <<>>
    /\ b_price_cache = <<>>
    /\ b_j = 0
    /\ b_results = <<>>
    /\ b_fetches = <<>>
    /\ b_quotes = <<>>
BatchIdle ==
    /\ historical_prices = <<>>
    /\ b_request = [kind |-> "returns", users |-> <<>>]
    /\ b_pc = "idle"
    /\ b_user = 1
    /\ b_ticker_list = <<>>
    /\ b_i = 0
    /\ b_futures = <<>>
    /\ b_price_cache = <<>>
    /\ b_j = 0
    /\ b_results = <<>>
    /\ b_fetches = <<>>
    /\ b_quotes = <<>>

portfolios_data == b_request.users[b_user]
\* after a user: the next one, or the response
PcOfUser(user) == IF user > Len(b_request.users) THEN "done" ELSE "start"

\* the user's portfolios are read, the tickers collected, list(all_tickers)
\* made in whatever order the set gives
BeginUser ==
    /\ b_pc = "start"
    /\ b_user <= Len(b_request.users)
    /\ IF portfolios_data = <<>>
       THEN /\ b_user' = b_user + 1
            /\ b_pc' = PcOfUser(b_user + 1)
            /\ UNCHANGED <<b_ticker_list, b_price_cache, b_quotes>>
       ELSE /\ b_ticker_list' \in Perms(all_tickers(portfolios_data))
            /\ b_price_cache' = <<>>
            /\ b_quotes' = <<>>
            /\ b_pc' = "submit"
            /\ UNCHANGED b_user
    /\ b_i' = 0
    /\ b_futures' = <<>>
    /\ b_j' = 0
    /\ UNCHANGED <<historical_prices, b_request, b_results, b_fetches, valVars, appVars>>

\* for i in range(0, len(ticker_list), batch_size): the batch is submitted
\* to a new ThreadPoolExecutor
SubmitBatch ==
    /\ b_pc = "submit"
    /\ b_i < Len(b_ticker_list)
    /\ LET last == IF b_i + BatchSize < Len(b_ticker_list)
                   THEN b_i + BatchSize ELSE Len(b_ticker_list)
           batch == SubSeq(b_ticker_list, b_i + 1, last)
       IN  b_futures' = [t \in Range(batch) |-> [state |-> "pending", price |-> 0]]
    /\ b_pc' = "wait"
    /\ UNCHANGED <<historical_prices, b_request, b_user, b_ticker_list, b_i,
                   b_price_cache, b_j, b_results, b_fetches, b_quotes, valVars, appVars>>

\* a pool thread takes a submitted call of fetch_current_price_for_ticker
WorkerStart(t) ==
    /\ t \in DOMAIN b_futures
    /\ b_futures[t].state = "pending"
    /\ Cardinality({r \in DOMAIN b_futures : b_futures[r].state = "running"}) < MaxWorkers
    /\ b_futures' = [b_futures EXCEPT ![t].state = "running"]
    /\ b_fetches' = With(b_fetches, Upper(t), Get(b_fetches, Upper(t), 0) + 1)
    /\ UNCHANGED <<historical_prices, b_request, b_pc, b_user, b_ticker_list, b_i,
                   b_price_cache, b_j, b_results, b_quotes, valVars, appVars>>

\* the call returns its price, or (crash) leaves the function by an exception
WorkerFinish(t, resp, store_up, crash) ==
    /\ t \in DOMAIN b_futures
    /\ b_futures[t].state = "running"
    /\ (LiveQuoteAccepted(resp) \/ crash) => store_up
    /\ crash => resp.raised
    /\ b_futures' =
          [b_futures EXCEPT ![t] =
              IF crash
              THEN [state |-> "raised", price |-> 0]
              ELSE [state |-> "finished",
                    price |-> fetch_current_price_for_ticker(t, resp, store_up)]]
    /\ b_quotes' = With(b_quotes, t, [resp |-> resp, store_up |-> store_up,
                                      crash |-> crash])
    /\ UNCHANGED <<historical_prices, b_request, b_pc, b_user, b_ticker_list, b_i,
                   b_price_cache, b_j, b_results, b_fetches, valVars, appVars>>

\* for future in as_completed(futures): price_cache[ticker] = price, or 0.0
\* when future.result() raises
Collect(t) ==
    /\ b_pc = "wait"
    /\ t \in DOMAIN b_futures
    /\ b_futures[t].state \in {"finished", "raised"}
    /\ b_price_cache' =
          With(b_price_cache, t,
               IF b_futures[t].state = "finished" THEN b_futures[t].price ELSE 0)
    /\ b_futures' = [b_futures EXCEPT ![t].state = "collected"]
    /\ UNCHANGED <<historical_prices, b_request, b_pc, b_user, b_ticker_list, b_i,
                   b_j, b_results, b_fetches, b_quotes, valVars, appVars>>

\* the as_completed loop has yielded every future and the `with` block has
\* shut the pool down
\* bug variant: the block left as soon as one future is in
\* bug variant: the next batch submitted without waiting for this one
BatchJoined_NoWait == TRUE
BatchJoined_FirstCompleted ==
    \E t \in DOMAIN b_futures : b_futures[t].state = "collected"
BatchJoined ==
    \A t \in DOMAIN b_futures : b_futures[t].state = "collected"
ExitBatch ==
    /\ b_pc = "wait"
    /\ BatchJoined
    /\ b_i' = b_i + BatchSize
    /\ b_pc' = "submit"
    /\ UNCHANGED <<historical_prices, b_request, b_user, b_ticker_list, b_futures,
                   b_price_cache, b_j, b_results, b_fetches, b_quotes, valVars, appVars>>

\* the batch loop is over
StartValuation ==
    /\ b_pc = "submit"
    /\ ~(b_i < Len(b_ticker_list))
    /\ b_pc' = "value"
    /\ b_j' = 1
    /\ UNCHANGED <<historical_prices, b_request, b_user, b_ticker_list, b_i, b_futures,
                   b_price_cache, b_results, b_fetches, b_quotes, valVars, appVars>>

\* one turn of the loop over the user's portfolios
ValuePortfolio ==
    /\ b_pc = "value"
    /\ b_j <= Len(portfolios_data)
    /\ LET enriched == enriched_positions(portfolios_data[b_j], b_price_cache)
           value == IF b_request.kind = "returns"
                    THEN calculate_portfolio_return(enriched)
                    ELSE calculate_portfolio_metrics_from_positions(enriched).total_value
       IN  b_results' = Append(b_results, [user |-> b_user, portfolio |-> b_j,
                                           value |-> value])
    /\ IF b_j = Len(portfolios_data)
       THEN /\ b_user' = b_user + 1
            /\ b_pc' = PcOfUser(b_user + 1)
            /\ b_j' = b_j
       ELSE /\ b_j' = b_j + 1
            /\ UNCHANGED <<b_user, b_pc>>
    /\ UNCHANGED <<historical_prices, b_request, b_ticker_list, b_i, b_futures,
                   b_price_cache, b_fetches, b_quotes, valVars, appVars>>

(***************************************************************************)
(* The handlers that take a portfolio id, with the response they give.     *)
(***************************************************************************)
NoRow == <<>>   \* get_portfolio_by_id returned None
\* request bodies: the positions of a save, the new_name of a rename
SavedPositions == {<<>>, <<Position("AAPL")>>}
NewNames == {"Alt", ""}

\* the dict get_portfolio_by_id makes of a row
PortfolioDict(portfolio_id) ==
    [id |-> portfolio_id,
     name |-> portfolios[portfolio_id].portfolio_name,
     positions |-> portfolios[portfolio_id].positions,
     is_default |-> portfolios[portfolio_id].is_default]

\* get_portfolio_by_id: the row with this id and this owner, or None; a store
\* error is caught and gives None
\* bug variant: the row looked up by its id alone
get_portfolio_by_id_AnyOwner(user_id, portfolio_id, fail) ==
    IF ~fail /\ portfolio_id \in DOMAIN portfolios
    THEN PortfolioDict(portfolio_id)
    ELSE NoRow
get_portfolio_by_id(user_id, portfolio_id, fail) ==
    IF /\ ~fail
       /\ portfolio_id \in DOMAIN portfolios
       /\ portfolios[portfolio_id].user_id = user_id
    THEN PortfolioDict(portfolio_id)
    ELSE NoRow

\* the portfolio_id a handler works on: the request's, else the session's
RequestedId(token, arg_id) ==
    IF arg_id = NoPortfolio /\ Authenticated(token)
    THEN SessionsAtHandler[token].active_portfolio_id
    ELSE arg_id

\* GET /api/portfolio/details: store call 1 get_portfolio_by_id
details_response(token, arg_id, fail) ==
    IF ~Authenticated(token) THEN [status |-> 401, body |-> NoRow]
    ELSE LET portfolio_id == RequestedId(token, arg_id)
             portfolio == get_portfolio_by_id(SessionsAtHandler[token].user_id,
                                              portfolio_id, fail = 1)
         IN  IF portfolio_id = NoPortfolio THEN [status |-> 400, body |-> NoRow]
             ELSE IF portfolio = NoRow THEN [status |-> 404, body |-> NoRow]
             ELSE [status |-> 200, body |-> portfolio]
get_portfolio_details(token, arg_id, fail) ==
    /\ fail # 0 => Authenticated(token) /\ RequestedId(token, arg_id) # NoPortfolio
    /\ before_request
    /\ RecordValidate(SessionsAtHandler, token)
    /\ active_sessions' = SessionsAfterAuth(token)
    /\ UNCHANGED <<storeVars, issued, revoked, clockVars, valVars, batchVars>>

\* POST /api/portfolio/save: store calls 1 get_portfolio_by_id, 2 update
save_response(token, positions, arg_id, fail) ==
    IF ~Authenticated(token) THEN [status |-> 401, body |-> NoRow]
    ELSE LET portfolio_id == RequestedId(token, arg_id)
             portfolio == get_portfolio_by_id(SessionsAtHandler[token].user_id,
                                              portfolio_id, fail = 1)
         IN  IF positions = <<>> THEN [status |-> 400, body |-> NoRow]
             ELSE IF portfolio_id = NoPortfolio THEN [status |-> 404, body |-> NoRow]
             ELSE IF portfolio = NoRow THEN [status |-> 404, body |-> NoRow]
             ELSE IF fail = 2 THEN [status |-> 500, body |-> NoRow]
             ELSE [status |-> 200, body |-> NoRow]
save_portfolio_data(token, positions, arg_id, fail) ==
    /\ fail # 0 => /\ Authenticated(token)
                   /\ positions # <<>>
                   /\ RequestedId(token, arg_id) # NoPortfolio
    /\ fail > 1 => save_response(token, positions, arg_id, fail).status = 500
    /\ before_request
    /\ RecordValidate(SessionsAtHandler, token)
    /\ active_sessions' = SessionsAfterAuth(token)
    /\ portfolios' =
          IF save_response(token, positions, arg_id, fail).status = 200
          THEN [portfolios EXCEPT ![RequestedId(token, arg_id)].positions = positions]
          ELSE portfolios
    /\ UNCHANGED <<users, next_portfolio_id, issued, revoked, clockVars, valVars, batchVars>>

\* update_portfolio_name: whether it returns True, and the table it leaves.
\* Store calls 1 get_portfolio_by_id, 2 update
update_portfolio_name_ok(user_id, portfolio_id, fail) ==
    get_portfolio_by_id(user_id, portfolio_id, fail = 1) # NoRow /\ fail # 2
update_portfolio_name(user_id, portfolio_id, new_name, fail) ==
    IF update_portfolio_name_ok(user_id, portfolio_id, fail)
    THEN [portfolios EXCEPT ![portfolio_id].portfolio_name = new_name]
    ELSE portfolios

\* PUT /api/user/portfolios/<portfolio_id>: store calls 1 and 2 of
\* update_portfolio_name, 3 the get_portfolio_by_id for the answer, whose
\* None is subscripted and ends the request with a server error
RenameReachesStore(token, new_name) ==
    /\ Authenticated(token)
    /\ new_name # ""
    /\ ~(Len(new_name) < 1 \/ Len(new_name) > 50)
rename_response(token, portfolio_id, new_name, fail) ==
    IF ~Authenticated(token) THEN [status |-> 401, body |-> NoRow]
    ELSE IF ~RenameReachesStore(token, new_name) THEN [status |-> 400, body |-> NoRow]
    ELSE IF ~update_portfolio_name_ok(SessionsAtHandler[token].user_id,
                                      portfolio_id, fail)
    THEN [status |-> 400, body |-> NoRow]
    ELSE IF fail = 3 THEN [status |-> 500, body |-> NoRow]
    ELSE [status |-> 200,
          body |-> [id |-> portfolio_id, name |-> new_name,
                    is_default |-> portfolios[portfolio_id].is_default]]
rename_portfolio_endpoint(token, portfolio_id, new_name, fail) ==
    /\ fail # 0 => RenameReachesStore(token, new_name)
    /\ fail > 1 => update_portfolio_name_ok(SessionsAtHandler[token].user_id,
                                            portfolio_id, 0)
    /\ before_request
    /\ RecordValidate(SessionsAtHandler, token)
    /\ active_sessions' = SessionsAfterAuth(token)
    /\ portfolios' =
          IF RenameReachesStore(token, new_name)
          THEN update_portfolio_name(SessionsAtHandler[token].user_id,
                                     portfolio_id, new_name, fail)
          ELSE portfolios
    /\ UNCHANGED <<users, next_portfolio_id, issued, revoked, clockVars, valVars, batchVars>>

\* delete_portfolio returns True
delete_portfolio_ok(user_id, portfolio_id, fail) ==
    /\ fail = 0
    /\ portfolio_id \in PortfoliosOf(portfolios, user_id)
    /\ Cardinality(PortfoliosOf(portfolios, user_id)) > 1
delete_response(token, portfolio_id, fail) ==
    IF ~Authenticated(token) THEN [status |-> 401, body |-> NoRow]
    ELSE IF ~delete_portfolio_ok(SessionsAtHandler[token].user_id, portfolio_id, fail)
    THEN [status |-> 400, body |-> NoRow]
    ELSE [status |-> 200, body |-> NoRow]
select_response(token, portfolio_id, fail) ==
    IF ~Authenticated(token) THEN [status |-> 401, body |-> NoRow]
    ELSE IF ~set_active_portfolio_ok(SessionsAtHandler[token].user_id, portfolio_id, fail)
    THEN [status |-> 400, body |-> NoRow]
    ELSE [status |-> 200, body |-> NoRow]

\* POST /api/user/portfolios: the answer, with the new portfolio in its body
create_response(token, portfolio_name, fail) ==
    IF ~Authenticated(token) THEN [status |-> 401, body |-> NoRow]
    ELSE IF portfolio_name = "" \/ Len(portfolio_name) < 1 \/ Len(portfolio_name) > 50
    THEN [status |-> 400, body |-> NoRow]
    ELSE IF create_portfolio_for_user(SessionsAtHandler[token].user_id,
                                      portfolio_name, fail) = portfolios
    THEN [status |-> 400, body |-> NoRow]
    ELSE [status |-> 200,
          body |-> [id |-> next_portfolio_id, name |-> portfolio_name,
                    is_default |->
                       PortfoliosOf(portfolios, SessionsAtHandler[token].user_id) = {}]]

\* the response on record: the request's handler, caller and portfolio id,
\* and the answer
Answer(op, token, portfolio_id, answer) ==
    response' = [op |-> op,
                 user_id |-> IF Authenticated(token)
                             THEN SessionsAtHandler[token].user_id ELSE 0,
                 portfolio_id |-> portfolio_id,
                 status |-> answer.status,
                 body |-> answer.body]

(***************************************************************************)
(* select_portfolio_endpoint one store call at a time: requests are served  *)
(* by threads of their own, so the calls of two requests interleave.       *)
(***************************************************************************)
ClearDefaults(table, user_id) ==
    [p \in DOMAIN table |->
        IF table[p].user_id = user_id
        THEN [table[p] EXCEPT !.is_default = FALSE]
        ELSE table[p]]
SelectDone(r, status) == sel' = [sel EXCEPT ![r].pc = "done", ![r].status = status]

\* the request arrives: validate_session_token, then set_active_portfolio's
\* get_portfolio_by_id
SelectBegin(r, token, portfolio_id, fail) ==
    /\ sel[r].pc = "idle"
    /\ fail => Authenticated(token)
    /\ before_request
    /\ RecordValidate(SessionsAtHandler, token)
    /\ active_sessions' = SessionsAfterAuth(token)
    /\ sel' = [sel EXCEPT ![r] =
          IF ~Authenticated(token)
          THEN [pc |-> "done", user_id |-> 0, token |-> token,
                portfolio_id |-> portfolio_id, status |-> 401]
          ELSE IF get_portfolio_by_id(SessionsAtHandler[token].user_id,
                                      portfolio_id, fail) = NoRow
          THEN [pc |-> "done", user_id |-> SessionsAtHandler[token].user_id,
                token |-> token, portfolio_id |-> portfolio_id, status |-> 400]
          ELSE [pc |-> "clear", user_id |-> SessionsAtHandler[token].user_id,
                token |-> token, portfolio_id |-> portfolio_id, status |-> 0]]
    /\ UNCHANGED <<storeVars, issued, revoked, clockVars, response, cacheVars,
                   stock_call, request, unswept, valVars, batchVars>>
\* update is_default = False where user_id = user_id
SelectClear(r, fail) ==
    /\ sel[r].pc = "clear"
    /\ IF fail
       THEN SelectDone(r, 400) /\ UNCHANGED portfolios
       ELSE /\ portfolios' = ClearDefaults(portfolios, sel[r].user_id)
            /\ sel' = [sel EXCEPT ![r].pc = "set"]
    /\ UNCHANGED <<users, next_portfolio_id, sessionVars, clockVars, response,
                   cacheVars, stock_call, request, unswept, valVars, batchVars>>
\* update is_default = True where id = portfolio_id and user_id = user_id,
\* then the session's active_portfolio_id and the answer
SelectSet(r, fail) ==
    /\ sel[r].pc = "set"
    /\ IF fail
       THEN SelectDone(r, 400) /\ UNCHANGED <<portfolios, active_sessions>>
       ELSE /\ portfolios' = [portfolios EXCEPT ![sel[r].portfolio_id].is_default = TRUE]
            /\ active_sessions' = [active_sessions EXCEPT
                                     ![sel[r].token].active_portfolio_id =
                                        sel[r].portfolio_id]
            /\ SelectDone(r, 200)
    /\ UNCHANGED <<users, next_portfolio_id, last_cleanup_time, issued, revoked,
                   rejected, clockVars, response, cacheVars, stock_call, request, unswept, valVars,
                   batchVars>>

(***************************************************************************)
(* delete_portfolio_endpoint one store call at a time.                     *)
(***************************************************************************)
RaceFrame ==
    UNCHANGED <<users, next_portfolio_id, sessionVars, clockVars, response, cacheVars,
                stock_call, request, unswept, valVars, batchVars>>
\* the request arrives: validate_session_token, then delete_portfolio's
\* get_portfolio_by_id, whose is_default the function keeps
DeleteBegin(r, token, portfolio_id) ==
    /\ sel[r].pc = "idle"
    /\ before_request
    /\ RecordValidate(SessionsAtHandler, token)
    /\ active_sessions' = SessionsAfterAuth(token)
    /\ sel' = [sel EXCEPT ![r] =
          IF ~Authenticated(token)
          THEN [pc |-> "done", user_id |-> 0, token |-> token,
                portfolio_id |-> portfolio_id, status |-> 401]
          ELSE IF get_portfolio_by_id(SessionsAtHandler[token].user_id,
                                      portfolio_id, FALSE) = NoRow
          THEN [pc |-> "done", user_id |-> SessionsAtHandler[token].user_id,
                token |-> token, portfolio_id |-> portfolio_id, status |-> 400]
          ELSE [pc |-> "count", user_id |-> SessionsAtHandler[token].user_id,
                token |-> token, portfolio_id |-> portfolio_id, status |-> 0,
                is_default |-> portfolios[portfolio_id].is_default, first |-> 0]]
    /\ UNCHANGED <<storeVars, issued, revoked, clockVars, response, cacheVars,
                   stock_call, request, unswept, valVars, batchVars>>
\* select('id', count='exact') where user_id = user_id; existing.count <= 1
DeleteCount(r) ==
    /\ sel[r].pc = "count"
    /\ IF Cardinality(PortfoliosOf(portfolios, sel[r].user_id)) <= 1
       THEN SelectDone(r, 400)
       ELSE sel' = [sel EXCEPT ![r].pc = "delete"]
    /\ UNCHANGED portfolios
    /\ RaceFrame
\* delete where id = portfolio_id and user_id = user_id
DeleteRow(r) ==
    /\ sel[r].pc = "delete"
    /\ portfolios' =
          IF sel[r].portfolio_id \in PortfoliosOf(portfolios, sel[r].user_id)
          THEN Without(portfolios, sel[r].portfolio_id)
          ELSE portfolios
    /\ IF sel[r].is_default
       THEN sel' = [sel EXCEPT ![r].pc = "first"]
       ELSE SelectDone(r, 200)
    /\ RaceFrame
\* select('id') where user_id = user_id, limit(1): any row of the user
DeleteFirst(r) ==
    /\ sel[r].pc = "first"
    /\ IF PortfoliosOf(portfolios, sel[r].user_id) = {}
       THEN SelectDone(r, 200)
       ELSE \E first \in PortfoliosOf(portfolios, sel[r].user_id) :
               sel' = [sel EXCEPT ![r].pc = "promote", ![r].first = first]
    /\ UNCHANGED portfolios
    /\ RaceFrame
\* update is_default = True where id = first.data[0]['id']
DeletePromote(r) ==
    /\ sel[r].pc = "promote"
    /\ portfolios' =
          IF sel[r].first \in DOMAIN portfolios
          THEN [portfolios EXCEPT ![sel[r].first].is_default = TRUE]
          ELSE portfolios
    /\ SelectDone(r, 200)
    /\ RaceFrame

(***************************************************************************)
(* create_user_portfolio_endpoint one store call at a time.                *)
(***************************************************************************)
\* the request arrives: validate_session_token, the checks of the name, then
\* create_portfolio_for_user's select of the user's portfolios and its limit
CreateBegin(r, token, portfolio_name) ==
    /\ sel[r].pc = "idle"
    /\ before_request
    /\ RecordValidate(SessionsAtHandler, token)
    /\ active_sessions' = SessionsAfterAuth(token)
    /\ sel' = [sel EXCEPT ![r] =
          IF ~Authenticated(token)
          THEN [pc |-> "done", user_id |-> 0, token |-> token, portfolio_id |-> 0,
                status |-> 401]
          ELSE LET user_id == SessionsAtHandler[token].user_id
                   portfolio_count == Cardinality(PortfoliosOf(portfolios, user_id))
               IN  IF \/ portfolio_name = ""
                      \/ Len(portfolio_name) < 1 \/ Len(portfolio_name) > 50
                      \/ portfolio_count >= MAX_PORTFOLIOS
                   THEN [pc |-> "done", user_id |-> user_id, token |-> token,
                         portfolio_id |-> 0, status |-> 400]
                   ELSE [pc |-> "insert", user_id |-> user_id, token |-> token,
                         portfolio_id |-> 0, status |-> 0,
                         portfolio_name |-> portfolio_name,
                         portfolio_count |-> portfolio_count]]
    /\ UNCHANGED <<storeVars, issued, revoked, clockVars, response, cacheVars,
                   stock_call, request, unswept, valVars, batchVars>>
\* insert(data), is_default being portfolio_count == 0 of the earlier select
CreateInsert(r) ==
    /\ sel[r].pc = "insert"
    /\ portfolios' = With(portfolios, next_portfolio_id,
                          [user_id |-> sel[r].user_id,
                           portfolio_name |-> sel[r].portfolio_name,
                           positions |-> <<>>,
                           is_default |-> (sel[r].portfolio_count = 0)])
    /\ next_portfolio_id' = next_portfolio_id + 1
    /\ sel' = [sel EXCEPT ![r].pc = "done", ![r].status = 200,
                          ![r].portfolio_id = next_portfolio_id]
    /\ UNCHANGED <<users, sessionVars, clockVars, response, cacheVars,
                   stock_call, request, unswept, valVars, batchVars>>

(***************************************************************************)
(* Price Cache: the functions over table historical_prices.                *)
(***************************************************************************)
RETRIES == 2
MaxDate == 2   \* the days prices are stored for
Dates == 1..MaxDate
Closes == 1..MaxPrice
CacheTickers == {"AAPL", "aapl"}
PyFloat(v) == [type |-> "float", value |-> v]
PyStr(v) == [type |-> "str", value |-> v]

\* what one .execute() does: it answers, or raises with a message naming a
\* connection failure, a duplicate key, or anything else
StoreOutcomes == {"ok", "connection", "duplicate key", "other"}
\* 'broken pipe' in str(e).lower() or 'errno 32' in ... or 'connection' in ...
IsTransient(outcome) == outcome = "connection"
\* the outcomes of successive tries; after the first that is not a connection
\* failure the rest do not matter
OutcomeRuns ==
    {run \in [1..(RETRIES + 1) -> StoreOutcomes] :
        \A i \in 1..RETRIES :
            run[i] # "connection" => \A j \in (i + 1)..(RETRIES + 1) : run[j] = "ok"}
ReadRuns == {run \in OutcomeRuns : \A i \in DOMAIN run : run[i] # "duplicate key"}
AnsweredRun == [i \in 1..(RETRIES + 1) |-> "ok"]

\* the store's upsert: the table is unique per (ticker, date), a record whose
\* (ticker, date) is stored replaces the stored row
Upsert(rows, records) ==
    LET kept == {r \in BagToSet(rows) :
                    \A n \in records : ~(n.ticker = r.ticker /\ n.date = r.date)}
    IN  [r \in kept |-> rows[r]] (+) SetToBag(records)

\* while attempt < retries: try ... except: attempt += 1; retry or return.
\* tries counts the passes through the try block
RECURSIVE retry_loop_AnyFailure(_, _, _)
\* bug variant: every failure is retried
retry_loop_AnyFailure(attempt, run, raises_before_store) ==
    IF ~(attempt < RETRIES)
    THEN [tries |-> attempt, outcome |-> "gave up"]
    ELSE LET outcome == IF raises_before_store THEN "other" ELSE run[attempt + 1]
         IN  IF outcome = "ok"
             THEN [tries |-> attempt + 1, outcome |-> "ok"]
             ELSE IF attempt + 1 < RETRIES /\ outcome # "duplicate key"
             THEN retry_loop_AnyFailure(attempt + 1, run, raises_before_store)
             ELSE [tries |-> attempt + 1, outcome |-> outcome]
RECURSIVE retry_loop(_, _, _)
retry_loop(attempt, run, raises_before_store) ==
    IF ~(attempt < RETRIES)
    THEN [tries |-> attempt, outcome |-> "gave up"]
    ELSE LET outcome == IF raises_before_store THEN "other" ELSE run[attempt + 1]
         IN  IF outcome = "ok"
             THEN [tries |-> attempt + 1, outcome |-> "ok"]
             ELSE IF attempt + 1 < RETRIES /\ IsTransient(outcome)
             THEN retry_loop(attempt + 1, run, raises_before_store)
             ELSE [tries |-> attempt + 1, outcome |-> outcome]

\* select ... eq(ticker).gte(date, from_date).lte(date, to_date)
RowsOf(rows, ticker, from_date, to_date) ==
    {r \in BagToSet(rows) :
        r.ticker = ticker /\ from_date <= r.date /\ r.date <= to_date}
\* .order('date', desc=False), the columns date and close
RECURSIVE OrderByDate(_)
OrderByDate(rowset) ==
    IF rowset = {} THEN <<>>
    ELSE LET first == CHOOSE r \in rowset : \A q \in rowset : r.date <= q.date
         IN  <<[date |-> first.date, close |-> first.close]>>
                \o OrderByDate(rowset \ {first})
\* .order('date', desc=True).limit(1)
LatestRow(rowset) == CHOOSE r \in rowset : \A q \in rowset : q.date <= r.date

\* bug variant: the ticker is looked up as given
get_cached_prices_from_db_NoUpper(rows, ticker, from_date, to_date, run, supabase) ==
    IF ~supabase THEN [tries |-> 0, outcome |-> "no client", result |-> <<>>]
    ELSE LET loop == retry_loop(0, run, FALSE)
         IN  [tries |-> loop.tries, outcome |-> loop.outcome,
              result |-> IF loop.outcome = "ok"
                         THEN OrderByDate(RowsOf(rows, ticker, from_date, to_date))
                         ELSE <<>>]
get_cached_prices_from_db(rows, ticker, from_date, to_date, run, supabase) ==
    IF ~supabase THEN [tries |-> 0, outcome |-> "no client", result |-> <<>>]
    ELSE LET loop == retry_loop(0, run, FALSE)
         IN  [tries |-> loop.tries, outcome |-> loop.outcome,
              result |-> IF loop.outcome = "ok"
                         THEN OrderByDate(RowsOf(rows, Upper(ticker), from_date, to_date))
                         ELSE <<>>]

\* get_last_close_price with its tries: {'date', 'close'} of the latest row
last_close_price_call(rows, ticker, run, supabase) ==
    IF ~supabase THEN [tries |-> 0, outcome |-> "no client", result |-> PyNone]
    ELSE LET loop == retry_loop(0, run, FALSE)
             found == RowsOf(rows, Upper(ticker), 1, MaxDate)
         IN  [tries |-> loop.tries, outcome |-> loop.outcome,
              result |-> IF loop.outcome = "ok" /\ found # {}
                         THEN PyDict([date |-> LatestRow(found).date,
                                      close |-> LatestRow(found).close])
                         ELSE PyNone]

get_last_sync_date(rows, ticker, run, supabase) ==
    IF ~supabase THEN [tries |-> 0, outcome |-> "no client", result |-> PyNone]
    ELSE LET loop == retry_loop(0, run, FALSE)
             found == RowsOf(rows, Upper(ticker), 1, MaxDate)
         IN  [tries |-> loop.tries, outcome |-> loop.outcome,
              result |-> IF loop.outcome = "ok" /\ found # {}
                         THEN PyStr(LatestRow(found).date)
                         ELSE PyNone]

\* the records save_prices_to_db builds: ticker.upper(), date, float(close)
Records(ticker, prices) ==
    {[ticker |-> Upper(ticker), date |-> prices[i].date,
      close |-> float(prices[i].close).value] : i \in 1..Len(prices)}
\* bug variant: the records are inserted beside the stored rows
save_prices_to_db_Insert(rows, ticker, prices, run, supabase) ==
    IF ~supabase \/ prices = <<>>
    THEN [tries |-> 0, outcome |-> "not tried", result |-> FALSE, rows |-> rows]
    ELSE LET bad == \E i \in 1..Len(prices) : float(prices[i].close).raised
             loop == retry_loop(0, run, bad)
         IN  [tries |-> loop.tries, outcome |-> loop.outcome,
              result |-> loop.outcome \in {"ok", "duplicate key"},
              rows |-> IF loop.outcome = "ok"
                       THEN rows (+) SetToBag(Records(ticker, prices))
                       ELSE rows]
save_prices_to_db(rows, ticker, prices, run, supabase) ==
    IF ~supabase \/ prices = <<>>
    THEN [tries |-> 0, outcome |-> "not tried", result |-> FALSE, rows |-> rows]
    ELSE LET bad == \E i \in 1..Len(prices) : float(prices[i].close).raised
             loop == retry_loop(0, run, bad)
         IN  [tries |-> loop.tries, outcome |-> loop.outcome,
              result |-> loop.outcome \in {"ok", "duplicate key"},
              rows |-> IF loop.outcome = "ok"
                       THEN Upsert(rows, Records(ticker, prices))
                       ELSE rows]

\* the call on record; known: every point of a save was stored already
CacheCall(op, ticker, prices, from_date, to_date, run, call, known) ==
    cache_call' = [op |-> op, ticker |-> ticker, prices |-> prices,
                   from_date |-> from_date, to_date |-> to_date, run |-> run,
                   tries |-> call.tries, outcome |-> call.outcome,
                   result |-> call.result, known |-> known]
CacheFrame ==
    UNCHANGED <<storeVars, sessionVars, clockVars, response, sel, stock_call, request, unswept,
                valVars, batchVars>>

SavePrices(ticker, prices, run, supabase) ==
    LET call == save_prices_to_db(price_rows, ticker, prices, run, supabase)
        clean == \A i \in 1..Len(prices) : ~float(prices[i].close).raised
    IN  /\ call.outcome = "duplicate key" =>
              \E i \in 1..Len(prices) :
                  RowsOf(price_rows, Upper(ticker), prices[i].date, prices[i].date) # {}
        /\ price_rows' = call.rows
        /\ CacheCall("save", ticker, prices, 0, 0, run, call,
                     /\ prices # <<>>
                     /\ clean
                     /\ Records(ticker, prices) \subseteq BagToSet(price_rows))
        /\ CacheFrame
ReadRange(ticker, from_date, to_date, run, supabase) ==
    /\ CacheCall("range", ticker, <<>>, from_date, to_date, run,
                 get_cached_prices_from_db(price_rows, ticker, from_date, to_date,
                                           run, supabase), FALSE)
    /\ UNCHANGED price_rows
    /\ CacheFrame
ReadLastClose(ticker, run, supabase) ==
    /\ CacheCall("last_close", ticker, <<>>, 0, 0, run,
                 last_close_price_call(price_rows, ticker, run, supabase), FALSE)
    /\ UNCHANGED price_rows
    /\ CacheFrame
ReadLastSync(ticker, run, supabase) ==
    /\ CacheCall("last_sync", ticker, <<>>, 0, 0, run,
                 get_last_sync_date(price_rows, ticker, run, supabase), FALSE)
    /\ UNCHANGED price_rows
    /\ CacheFrame

\* the price lists saved: one or two points of different dates, and one
\* whose close is None
PricePoint(date, close) == [date |-> date, close |-> PyFloat(close)]
PriceLists ==
    {<<>>, <<[date |-> 1, close |-> PyNone]>>}
    \cup {<<PricePoint(d, c)>> : d \in Dates, c \in Closes}
    \cup {<<PricePoint(d[2], c), PricePoint(d[1], c)>> :
             d \in {x \in Dates \X Dates : x[1] < x[2]}, c \in Closes}

(***************************************************************************)
(* Quote resolution: GET /api/stock/<ticker> and /api/stock/<ticker>/instant. *)
(* Prices are in thousandths, rounded prices in hundredths.                *)
(***************************************************************************)
\* what Finnhub's /quote can do: raise, refuse, or answer a body whose 'c' is
\* absent, None, 0, a price, a negative number or not a number at all, and
\* whose 'pc', 'd', 'dp' are numbers or None
QuoteBodies ==
    {[pc |-> pc, d |-> d, dp |-> dp] :
        pc \in {PyNone, PyFloat(44000)}, d \in {PyNone, PyFloat(1004)},
        dp \in {PyNone, PyFloat(2282)}}
    \cup {[c |-> c, pc |-> pc, d |-> d, dp |-> dp] :
             c \in {PyNone, PyFloat(0), PyFloat(45000), PyFloat(45004),
                    PyFloat(0 - 1000), PyDict(<<>>), PyText("invalid")},
             pc \in {PyNone, PyFloat(44000)}, d \in {PyNone, PyFloat(1004)},
             dp \in {PyNone, PyFloat(2282)}}
StockQuotes ==
    {[raised |-> TRUE, status_code |-> 0, json |-> <<>>],
     [raised |-> FALSE, status_code |-> 429, json |-> <<>>]}
    \cup {[raised |-> FALSE, status_code |-> 200, json |-> j] : j \in QuoteBodies}
\* what /stock/profile2 can do
Profiles ==
    {[raised |-> TRUE, status_code |-> 0, name |-> ""],
     [raised |-> FALSE, status_code |-> 404, name |-> ""],
     [raised |-> FALSE, status_code |-> 200, name |-> ""],
     [raised |-> FALSE, status_code |-> 200, name |-> "Apple Inc"]}
\* quote_data.get(key)
QuoteGet(quote_data, key) ==
    IF key \in DOMAIN quote_data THEN quote_data[key] ELSE PyNone
\* round(x, 2) of a price in thousandths
RoundPrice(x) == IF x < 0 THEN 0 - Round2(0 - x, 1000) ELSE Round2(x, 1000)

\* the four assignments both handlers make from the quote; failed_at is the
\* assignment whose float() raised (0: none), the later ones are not made
\* bug variant: float() of the value whatever it is
parse_quote_NoNoneCheck(quote_data) ==
    LET c == float(QuoteGet(quote_data, "c"))
        pc == float(QuoteGet(quote_data, "pc"))
        d == float(QuoteGet(quote_data, "d"))
        dp == float(QuoteGet(quote_data, "dp"))
        failed_at == IF c.raised THEN 1 ELSE IF pc.raised THEN 2
                     ELSE IF d.raised THEN 3 ELSE IF dp.raised THEN 4 ELSE 0
        made(n, v) == IF failed_at = 0 \/ n < failed_at THEN PyFloat(v.value) ELSE PyNone
    IN  [failed_at |-> failed_at,
         current_price |-> made(1, c),
         previous_close |-> made(2, pc),
         change_amount |-> made(3, d),
         change_percent |-> made(4, dp)]
parse_quote(quote_data) ==
    LET orElse(raw, default) == IF raw.type # "NoneType" THEN float(raw)
                                ELSE [raised |-> FALSE, value |-> default]
        c == float(QuoteGet(quote_data, "c"))
        pc == orElse(QuoteGet(quote_data, "pc"), IF c.raised THEN 0 ELSE c.value)
        d == orElse(QuoteGet(quote_data, "d"), 0)
        dp == orElse(QuoteGet(quote_data, "dp"), 0)
        failed_at == IF c.raised THEN 1 ELSE IF pc.raised THEN 2
                     ELSE IF d.raised THEN 3 ELSE IF dp.raised THEN 4 ELSE 0
        made(n, v) == IF failed_at = 0 \/ n < failed_at THEN PyFloat(v.value) ELSE PyNone
    IN  [failed_at |-> failed_at,
         current_price |-> made(1, c),
         previous_close |-> made(2, pc),
         change_amount |-> made(3, d),
         change_percent |-> made(4, dp)]

NoBody == <<>>
\* jsonify({'error': ...})
ErrorBody == [error |-> TRUE]
\* bug variant of get_stock_data: a current price of 0 is answered as a quote
get_stock_data_NoZeroCheck(ticker, api_key, quote_response, profile_response) ==
    LET quote_data == quote_response.json
        parsed == parse_quote(quote_data)
    IN  IF ~api_key THEN [status |-> 500, body |-> ErrorBody]
        ELSE IF quote_response.raised THEN [status |-> 500, body |-> ErrorBody]
        ELSE IF quote_response.status_code # 200
        THEN [status |-> quote_response.status_code, body |-> ErrorBody]
        ELSE IF QuoteGet(quote_data, "c").type = "NoneType"
        THEN [status |-> 404, body |-> ErrorBody]
        ELSE IF parsed.failed_at # 0 THEN [status |-> 400, body |-> ErrorBody]
        ELSE IF profile_response.raised THEN [status |-> 500, body |-> ErrorBody]
        ELSE [status |-> 200,
              body |-> [ticker |-> Upper(ticker),
                        company_name |->
                           IF profile_response.status_code = 200
                              /\ profile_response.name # ""
                           THEN profile_response.name ELSE Upper(ticker),
                        current_price |-> RoundPrice(parsed.current_price.value),
                        change_amount |-> RoundPrice(parsed.change_amount.value),
                        change_percent |-> RoundPrice(parsed.change_percent.value),
                        previous_close |-> RoundPrice(parsed.previous_close.value)]]
\* bug variant of get_stock_data: float() outside the inner try, so that its
\* error is caught by the handler's last except clause
get_stock_data_NoInnerTry(ticker, api_key, quote_response, profile_response) ==
    LET quote_data == quote_response.json
        parsed == parse_quote(quote_data)
    IN  IF ~api_key THEN [status |-> 500, body |-> ErrorBody]
        ELSE IF quote_response.raised THEN [status |-> 500, body |-> ErrorBody]
        ELSE IF quote_response.status_code # 200
        THEN [status |-> quote_response.status_code, body |-> ErrorBody]
        ELSE IF QuoteGet(quote_data, "c").type = "NoneType"
        THEN [status |-> 404, body |-> ErrorBody]
        ELSE IF parsed.failed_at # 0 THEN [status |-> 500, body |-> ErrorBody]
        ELSE IF parsed.current_price.value = 0 THEN [status |-> 404, body |-> ErrorBody]
        ELSE IF profile_response.raised THEN [status |-> 500, body |-> ErrorBody]
        ELSE [status |-> 200,
              body |-> [ticker |-> Upper(ticker),
                        company_name |->
                           IF profile_response.status_code = 200
                              /\ profile_response.name # ""
                           THEN profile_response.name ELSE Upper(ticker),
                        current_price |-> RoundPrice(parsed.current_price.value),
                        change_amount |-> RoundPrice(parsed.change_amount.value),
                        change_percent |-> RoundPrice(parsed.change_percent.value),
                        previous_close |-> RoundPrice(parsed.previous_close.value)]]
\* GET /api/stock/<ticker>
get_stock_data(ticker, api_key, quote_response, profile_response) ==
    LET quote_data == quote_response.json
        parsed == parse_quote(quote_data)
    IN  IF ~api_key THEN [status |-> 500, body |-> ErrorBody]
        ELSE IF quote_response.raised THEN [status |-> 500, body |-> ErrorBody]
        ELSE IF quote_response.status_code # 200
        THEN [status |-> quote_response.status_code, body |-> ErrorBody]
        ELSE IF QuoteGet(quote_data, "c").type = "NoneType"
        THEN [status |-> 404, body |-> ErrorBody]
        ELSE IF parsed.failed_at # 0 THEN [status |-> 400, body |-> ErrorBody]
        ELSE IF parsed.current_price.value = 0 THEN [status |-> 404, body |-> ErrorBody]
        ELSE IF profile_response.raised THEN [status |-> 500, body |-> ErrorBody]
        ELSE [status |-> 200,
              body |-> [ticker |-> Upper(ticker),
                        company_name |->
                           IF profile_response.status_code = 200
                              /\ profile_response.name # ""
                           THEN profile_response.name ELSE Upper(ticker),
                        current_price |-> RoundPrice(parsed.current_price.value),
                        change_amount |-> RoundPrice(parsed.change_amount.value),
                        change_percent |-> RoundPrice(parsed.change_percent.value),
                        previous_close |-> RoundPrice(parsed.previous_close.value)]]

\* GET /api/stock/<ticker>/instant: an exception of the Finnhub calls is caught
\* and leaves what was assigned before it
get_stock_instant(ticker, api_key, quote_response, profile_response, market_open) ==
    LET quote_data == quote_response.json
        quoted == /\ api_key
                  /\ ~quote_response.raised
                  /\ quote_response.status_code = 200
                  /\ QuoteGet(quote_data, "c").type # "NoneType"
        unset == [failed_at |-> 0, current_price |-> PyNone, previous_close |-> PyNone,
                  change_amount |-> PyNone, change_percent |-> PyNone]
        parsed == IF quoted THEN parse_quote(quote_data) ELSE unset
        profiled == /\ api_key
                    /\ ~quote_response.raised
                    /\ parsed.failed_at = 0
                    /\ ~profile_response.raised
                    /\ profile_response.status_code = 200
        valid == /\ parsed.current_price.type # "NoneType"
                 /\ parsed.current_price.value # 0
                 /\ parsed.current_price.value > 0
        ifValid(v) == IF valid THEN v ELSE PyNone
    IN  [status |-> 200,
         body |-> [ticker |-> Upper(ticker),
                   company_name |-> IF profiled /\ profile_response.name # ""
                                    THEN profile_response.name ELSE Upper(ticker),
                   market_open |-> market_open,
                   last_close |-> get_last_close_price(Upper(ticker), TRUE),
                   current_price |-> ifValid(parsed.current_price),
                   change_amount |-> ifValid(parsed.change_amount),
                   change_percent |-> ifValid(parsed.change_percent),
                   previous_close |-> ifValid(parsed.previous_close)]]

QuoteFrame ==
    UNCHANGED <<storeVars, sessionVars, clockVars, response, sel, cacheVars,
                request, unswept, valVars, batchVars>>
StockRequest(ticker, api_key, quote_response, profile_response) ==
    /\ stock_call' = [op |-> "stock", api_key |-> api_key, quote |-> quote_response,
                      profile |-> profile_response,
                      answer |-> get_stock_data(ticker, api_key, quote_response,
                                                profile_response)]
    /\ QuoteFrame
InstantRequest(ticker, api_key, quote_response, profile_response, market_open) ==
    /\ stock_call' = [op |-> "instant", api_key |-> api_key, quote |-> quote_response,
                      profile |-> profile_response,
                      answer |-> get_stock_instant(ticker, api_key, quote_response,
                                                   profile_response, market_open)]
    /\ QuoteFrame

\* a quote request that raised, as fetch_current_price_for_ticker sees it
QuoteRaised == [raised |-> TRUE, status_code |-> 0, json |-> [t |-> 0]]
\* the Finnhub branch of fetch_current_price_for_ticker on the quote bodies of
\* this section: float(c) is returned when 'c' is not None, converts and is
\* above 0; everything else goes on to the last close and then to 0.0
fetch_price_for_quote(ticker, api_key, quote_response, store_up) ==
    LET price_value == QuoteGet(quote_response.json, "c")
        price_float == float(price_value)
        live == /\ api_key
                /\ ~quote_response.raised
                /\ quote_response.status_code = 200
                /\ price_value.type # "NoneType"
                /\ ~price_float.raised
                /\ price_float.value > 0
    IN  IF live THEN price_float.value
        ELSE 1000 * fetch_current_price_for_ticker(ticker, QuoteRaised, store_up)
PriceRequest(ticker, api_key, quote_response, store_up) ==
    /\ stock_call' = [op |-> "price", api_key |-> api_key, quote |-> quote_response,
                      store_up |-> store_up,
                      answer |-> fetch_price_for_quote(ticker, api_key, quote_response,
                                                       store_up)]
    /\ QuoteFrame

(***************************************************************************)
(* Market Calendar: is_market_open.                                        *)
(***************************************************************************)
\* the instants of the model, as datetime fields in UTC; weekday 0 is Monday
Instants ==
    [weekday : 0..6, hour : 0..23, minute : {0, 29, 30, 59}, second : {0, 59},
     microsecond : {0, 1}]
\* datetime.now(est): US/Eastern is five hours behind UTC, four in summer
EasternOffset(dst) == IF dst THEN 4 ELSE 5
InEastern(utc_now, dst) ==
    [utc_now EXCEPT
        !.hour = (utc_now.hour + 24 - EasternOffset(dst)) % 24,
        !.weekday = IF utc_now.hour < EasternOffset(dst)
                    THEN (utc_now.weekday + 6) % 7 ELSE utc_now.weekday]
\* a <= b for two datetimes of one day
DatetimeLe(a, b) ==
    LET seconds(t) == (t.hour * 60 + t.minute) * 60 + t.second
    IN  \/ seconds(a) < seconds(b)
        \/ seconds(a) = seconds(b) /\ a.microsecond <= b.microsecond
is_market_open(utc_now, dst) ==
    LET est_now == InEastern(utc_now, dst)
        market_open == [est_now EXCEPT !.hour = 9, !.minute = 30, !.second = 0,
                                       !.microsecond = 0]
        market_close == [est_now EXCEPT !.hour = 16, !.minute = 0, !.second = 0,
                                        !.microsecond = 0]
    IN  IF est_now.weekday > 4 THEN FALSE
        ELSE DatetimeLe(market_open, est_now) /\ DatetimeLe(est_now, market_close)
MarketRequest(utc_now, dst) ==
    /\ stock_call' = [op |-> "market", local |-> InEastern(utc_now, dst),
                      answer |-> is_market_open(utc_now, dst)]
    /\ QuoteFrame


(***************************************************************************)
(* GET /api/stock/<ticker>/history: the Price Cache first, then yfinance.  *)
(***************************************************************************)
\* datetime.now().date(), later than every stored date
Today == MaxDate + 1
\* what stock.history(start, end) can do: raise, or answer the rows it has;
\* the rows it hands over are those from start up to, not including, end
HistoryAnswers ==
    {[raised |-> TRUE, rows |-> <<>>]}
    \cup {[raised |-> FALSE, rows |-> ps] :
             ps \in {l \in PriceLists :
                        \A i \in 1..Len(l) : l[i].close \in {PyNone, PyFloat(1)}}}
RECURSIVE InRange(_, _, _)
InRange(rows, from_date, to_date) ==
    IF rows = <<>> THEN <<>>
    ELSE (IF from_date <= Head(rows).date /\ Head(rows).date < to_date
          THEN <<Head(rows)>> ELSE <<>>) \o InRange(Tail(rows), from_date, to_date)
\* prices.sort(key=lambda x: x['date'])
RECURSIVE SortByDate(_)
SortByDate(prices) ==
    IF prices = <<>> THEN <<>>
    ELSE LET i == CHOOSE k \in 1..Len(prices) :
                      \A j \in 1..Len(prices) :
                          \/ prices[k].date < prices[j].date
                          \/ prices[k].date = prices[j].date /\ k <= j
         IN  <<prices[i]>> \o
             SortByDate([j \in 1..(Len(prices) - 1) |->
                            IF j < i THEN prices[j] ELSE prices[j + 1]])

\* bug variant: the fetched prices are returned without being saved
fetch_historical_prices_from_yfinance_NoSave(rows, ticker, from_date, to_date, history, run, supabase) ==
    LET hist == InRange(history.rows, from_date, to_date)
        bad == \E i \in 1..Len(hist) : float(hist[i].close).raised
        prices == SortByDate([i \in 1..Len(hist) |->
                                 [date |-> hist[i].date,
                                  close |-> PyFloat(float(hist[i].close).value)]])
        nosave == [tries |-> 0, outcome |-> "not tried", result |-> FALSE, rows |-> rows]
    IN  IF history.raised \/ (hist # <<>> /\ bad)
        THEN [error |-> "Exception", prices |-> <<>>, save |-> nosave]
        ELSE IF hist = <<>>
        THEN [error |-> "No data found", prices |-> <<>>, save |-> nosave]
        ELSE [error |-> "None", prices |-> prices, save |-> nosave]
\* fetch_historical_prices_from_yfinance; save is the call of save_prices_to_db
\* it made, whose answer it ignores
fetch_historical_prices_from_yfinance(rows, ticker, from_date, to_date, history, run, supabase) ==
    LET hist == InRange(history.rows, from_date, to_date)
        bad == \E i \in 1..Len(hist) : float(hist[i].close).raised
        prices == SortByDate([i \in 1..Len(hist) |->
                                 [date |-> hist[i].date,
                                  close |-> PyFloat(float(hist[i].close).value)]])
        nosave == [tries |-> 0, outcome |-> "not tried", result |-> FALSE, rows |-> rows]
    IN  IF history.raised \/ (hist # <<>> /\ bad)
        THEN [error |-> "Exception", prices |-> <<>>, save |-> nosave]
        ELSE IF hist = <<>>
        THEN [error |-> "No data found", prices |-> <<>>, save |-> nosave]
        ELSE [error |-> "None", prices |-> prices,
              save |-> save_prices_to_db(rows, ticker, prices, run, supabase)]

\* the 'prices' of the response: date and round(float(close), 2)
HistoryPrices(points, fetched) ==
    [i \in 1..Len(points) |->
        [date |-> points[i].date,
         close |-> IF fetched THEN points[i].close.value ELSE points[i].close]]
\* get_stock_history with from_date given; to_date None is the absent parameter.
\* provider_calls counts the calls of stock.history
get_stock_history(rows, ticker, from_date, to_date_arg, read_run, history, save_run, supabase) ==
    LET to_date == IF to_date_arg = PyNone THEN Today ELSE to_date_arg.value
        db == get_cached_prices_from_db(rows, Upper(ticker), from_date, to_date,
                                        read_run, supabase)
        result == fetch_historical_prices_from_yfinance(rows, Upper(ticker), from_date,
                                                        to_date, history, save_run,
                                                        supabase)
    IN  IF db.result # <<>>
        THEN [status |-> 200, source |-> "database",
              prices |-> HistoryPrices(db.result, FALSE), read |-> db.outcome,
              provider_calls |-> 0, save |-> "not tried", rows |-> rows]
        ELSE IF result.prices = <<>>
        THEN [status |-> 404, source |-> "yfinance", prices |-> <<>>,
              read |-> db.outcome, provider_calls |-> 1, save |-> result.save.outcome,
              rows |-> result.save.rows]
        ELSE [status |-> 200, source |-> "yfinance",
              prices |-> HistoryPrices(result.prices, TRUE), read |-> db.outcome,
              provider_calls |-> 1, save |-> result.save.outcome,
              rows |-> result.save.rows]
HistoryRequest(ticker, from_date, to_date_arg, read_run, history, save_run, supabase) ==
    LET answer == get_stock_history(price_rows, ticker, from_date, to_date_arg,
                                    read_run, history, save_run, supabase)
    IN  /\ answer.save = "duplicate key" =>
               RowsOf(price_rows, Upper(ticker), 1, Today) # {}
        /\ price_rows' = answer.rows
        /\ cache_call' = [op |-> "history", ticker |-> ticker, from_date |-> from_date,
                          to_date |-> to_date_arg, supabase |-> supabase,
                          read_run |-> read_run, save_run |-> save_run,
                          answer |-> [k \in DOMAIN answer \ {"rows"} |-> answer[k]]]
        /\ CacheFrame


(***************************************************************************)
(* GET /api/news/<ticker>.                                                 *)
(***************************************************************************)
\* an article of the provider: published_at is absent, an ISO timestamp, or
\* text that datetime.fromisoformat rejects
Articles ==
    {[title |-> "Earnings", published_at |-> p] :
        p \in {PyNone, PyStr("2024-01-02T00:00:00Z"), PyStr("yesterday")}}
\* what requests.get(.../v1/news/all) can do: raise, refuse, or answer a body
\* without 'data', with an empty list, or with articles
NewsBodies ==
    {[meta |-> <<>>], [data |-> <<>>]} \cup {[data |-> <<a>>] : a \in Articles}
NewsResponses ==
    {[raised |-> TRUE, status_code |-> 0, json |-> <<>>],
     [raised |-> FALSE, status_code |-> 429, json |-> <<>>]}
    \cup {[raised |-> FALSE, status_code |-> 200, json |-> j] : j \in NewsBodies}
\* the item built from an article; datetime is None without published_at
NewsItem(article) ==
    [headline |-> article.title,
     datetime |-> IF article.published_at = PyNone THEN PyNone ELSE article.published_at]
get_company_news(ticker, api_key, news_response) ==
    LET data == news_response.json
        articles == IF "data" \in DOMAIN data THEN data.data ELSE <<>>
        malformed == \E i \in 1..Len(articles) :
                         articles[i].published_at = PyStr("yesterday")
    IN  IF ~api_key THEN [status |-> 500, body |-> NoBody]
        ELSE IF news_response.raised THEN [status |-> 500, body |-> NoBody]
        ELSE IF news_response.status_code # 200
        THEN [status |-> news_response.status_code, body |-> NoBody]
        ELSE IF malformed THEN [status |-> 500, body |-> NoBody]
        ELSE [status |-> 200,
              body |-> [ticker |-> Upper(ticker),
                        news |-> [i \in 1..Len(articles) |-> NewsItem(articles[i])]]]
NewsRequest(ticker, api_key, news_response) ==
    /\ stock_call' = [op |-> "news", api_key |-> api_key, news |-> news_response,
                      answer |-> get_company_news(ticker, api_key, news_response)]
    /\ QuoteFrame


(***************************************************************************)
(* The position lists a client can submit to POST /api/portfolio/save.     *)
(***************************************************************************)
PositionOf(ticker, shares, purchase_price) ==
    [ticker |-> ticker, shares |-> shares, purchase_price |-> purchase_price]
\* positions a client may send: two that are well-formed, and one for each way
\* of being ill-formed
SubmittedPositions ==
    {PositionOf("AAPL", 1, 1), PositionOf("MSFT", 1, 1), PositionOf("", 1, 1),
     PositionOf("A1$", 1, 1), PositionOf("AAPL", 0, 1), PositionOf("AAPL", 1, 0 - 1)}
SubmittedLists ==
    {<<>>} \cup {<<p>> : p \in SubmittedPositions}
    \cup {<<PositionOf("AAPL", 1, 1), PositionOf("MSFT", 1, 1)>>,
          <<PositionOf("MSFT", 1, 1), PositionOf("AAPL", 0, 1)>>}
\* the request on record: the handler, the submitted body, the store call
\* that failed
PositionsSubmitted(token, positions, arg_id, fail) ==
    /\ save_portfolio_data(token, positions, arg_id, fail)
    /\ Answer("save", token, RequestedId(token, arg_id),
              save_response(token, positions, arg_id, fail))
    /\ request' = [op |-> "save", positions |-> positions, fail |-> fail]
    /\ UNCHANGED <<sel, cacheVars, stock_call, unswept>>


(***************************************************************************)
(* background_update_portfolio_metrics: the loop over users_to_process.    *)
(* The price fetch of a user is the batch resolution above; b_results      *)
(* takes an entry for every portfolio the loop reached and for every user  *)
(* whose turn ended in the outer except clause.                            *)
(***************************************************************************)
\* users_to_process with the portfolios the store holds for each: a user with
\* one portfolio, a user without portfolios, a user with two
JobUsers ==
    << <<Positions(<<"AAPL">>)>>, <<>>,
       <<Positions(<<"AAPL", "MSFT">>), Positions(<<>>)>> >>
\* request body: {} processes every user, {'user_id': ...} that user alone
JobRequests ==
    {[kind |-> "metrics", users |-> JobUsers],
     [kind |-> "metrics", users |-> <<JobUsers[3]>>]}
JobEntry(user, portfolio, outcome, value) ==
    [user |-> user, portfolio |-> portfolio, outcome |-> outcome, value |-> value]
NoMetrics == <<>>
JobInit ==
    /\ historical_prices = [t \in {"AAPL"} |-> CachedClose]
    /\ b_request \in JobRequests
    /\ b_pc = "job"
    /\ b_user = 1
    /\ b_ticker_list = <<>>
    /\ b_i = 0
    /\ b_futures = <<>>
    /\ b_price_cache = <<>>
    /\ b_j = 0
    /\ b_results = <<>>
    /\ b_fetches = <<>>
    /\ b_quotes = <<>>

\* the response of the job: the counts are those of the entries
updated_count == Cardinality({i \in 1..Len(b_results) :
                                 b_results[i].outcome \in {"stored", "not stored"}})
failed_count == Cardinality({i \in 1..Len(b_results) :
                                b_results[i].outcome \in {"failed", "user failed"}})
JobFrame == UNCHANGED <<historical_prices, b_request, valVars, storeVars, sessionVars,
                        clockVars, sideVars>>

\* users_to_process is made; raises: the select of the user ids raised, which
\* only the outer except clause catches
JobStart(raises) ==
    /\ b_pc = "job"
    /\ raises => Len(b_request.users) > 1
    /\ IF raises
       THEN /\ b_pc' = "answered"
            /\ response' = [op |-> "job", user_id |-> 0, portfolio_id |-> 0,
                            status |-> 500, body |-> NoBody]
       ELSE /\ b_pc' = PcOfUser(1)
            /\ UNCHANGED response
    /\ UNCHANGED <<b_user, b_ticker_list, b_i, b_futures, b_price_cache, b_j, b_results,
                   b_fetches, b_quotes>>
    /\ JobFrame

\* bug variant: the turn of a user has no except clause of its own, a failure
\* ends the loop
JobBeginUser_Abort(raises) ==
    /\ b_pc = "start"
    /\ b_user <= Len(b_request.users)
    /\ IF raises
       THEN /\ b_results' = Append(b_results, JobEntry(b_user, 0, "user failed", NoMetrics))
            /\ b_pc' = "done"
            /\ UNCHANGED <<b_user, b_ticker_list, b_price_cache, b_quotes>>
       ELSE IF portfolios_data = <<>>
       THEN /\ b_user' = b_user + 1
            /\ b_pc' = PcOfUser(b_user + 1)
            /\ UNCHANGED <<b_ticker_list, b_price_cache, b_quotes, b_results>>
       ELSE /\ b_ticker_list' \in Perms(all_tickers(portfolios_data))
            /\ b_price_cache' = <<>>
            /\ b_quotes' = <<>>
            /\ b_pc' = "submit"
            /\ UNCHANGED <<b_user, b_results>>
    /\ b_i' = 0
    /\ b_futures' = <<>>
    /\ b_j' = 0
    /\ UNCHANGED <<b_fetches, response>>
    /\ JobFrame
\* the turn of a user up to the price fetch; raises: the select of the user's
\* portfolios raised, the except clause of the turn counts it and the loop
\* goes on
JobBeginUser(raises) ==
    /\ b_pc = "start"
    /\ b_user <= Len(b_request.users)
    /\ IF raises
       THEN /\ b_results' = Append(b_results, JobEntry(b_user, 0, "user failed", NoMetrics))
            /\ b_user' = b_user + 1
            /\ b_pc' = PcOfUser(b_user + 1)
            /\ UNCHANGED <<b_ticker_list, b_price_cache, b_quotes>>
       ELSE IF portfolios_data = <<>>
       THEN /\ b_user' = b_user + 1
            /\ b_pc' = PcOfUser(b_user + 1)
            /\ UNCHANGED <<b_ticker_list, b_price_cache, b_quotes, b_results>>
       ELSE /\ b_ticker_list' \in Perms(all_tickers(portfolios_data))
            /\ b_price_cache' = <<>>
            /\ b_quotes' = <<>>
            /\ b_pc' = "submit"
            /\ UNCHANGED <<b_user, b_results>>
    /\ b_i' = 0
    /\ b_futures' = <<>>
    /\ b_j' = 0
    /\ UNCHANGED <<b_fetches, response>>
    /\ JobFrame

\* one turn of the loop over the user's portfolios. outcome "failed": the
\* enriching or the valuation raised, the inner except clause counts it;
\* "not stored": store_portfolio_metrics caught a store error and returned
\* None, which the job does not look at; "stored": the metrics are written.
\* After the last portfolio calculate_and_store_user_aggregate_metrics runs,
\* which catches its own errors.
JobValuePortfolio(outcome) ==
    /\ b_pc = "value"
    /\ b_j <= Len(portfolios_data)
    /\ LET enriched == enriched_positions(portfolios_data[b_j], b_price_cache)
           metrics == calculate_portfolio_metrics_from_positions(enriched)
       IN  b_results' = Append(b_results,
                               JobEntry(b_user, b_j, outcome,
                                        IF outcome = "stored" THEN metrics
                                        ELSE NoMetrics))
    /\ IF b_j = Len(portfolios_data)
       THEN /\ b_user' = b_user + 1
            /\ b_pc' = PcOfUser(b_user + 1)
            /\ b_j' = b_j
       ELSE /\ b_j' = b_j + 1
            /\ UNCHANGED <<b_user, b_pc>>
    /\ UNCHANGED <<b_ticker_list, b_i, b_futures, b_price_cache, b_fetches, b_quotes,
                   response>>
    /\ JobFrame

\* the loop is over: 200 with success and the two counts
JobRespond ==
    /\ b_pc = "done"
    /\ b_pc' = "answered"
    /\ response' = [op |-> "job", user_id |-> 0, portfolio_id |-> 0, status |-> 200,
                    body |-> [success |-> TRUE, updated_count |-> updated_count,
                              failed_count |-> failed_count]]
    /\ UNCHANGED <<b_user, b_ticker_list, b_i, b_futures, b_price_cache, b_j, b_results,
                   b_fetches, b_quotes>>
    /\ JobFrame


(***************************************************************************)
(* The Session Manager called with and without the periodic sweep: every   *)
(* call is made on active_sessions after before_request, and on unswept,   *)
(* the table of an execution whose before_request does nothing.            *)
(***************************************************************************)
SweepSteps == {1, CLEANUP_INTERVAL_SECONDS, SESSION_LIFETIME_SECONDS}
SweepFrame ==
    UNCHANGED <<storeVars, response, sel, cacheVars, stock_call, valVars, batchVars>>
\* a login or registration has passed its checks
SessionCreated(user_id, username) ==
    /\ NextToken \in Tokens
    /\ before_request
    /\ active_sessions' = create_session_token(SessionsAtHandler, user_id, username, 1)
    /\ unswept' = create_session_token(unswept, user_id, username, 1)
    /\ issued' = With(issued, NextToken, NewSession(user_id, username, 1))
    /\ request' = [op |-> "create", token |-> NextToken]
    /\ UNCHANGED <<revoked, rejected, clockVars>>
    /\ SweepFrame
\* a handler validates the cookie's token; swept and plain are what
\* validate_session_token returns in the two executions: a session or None
SessionValidated(token) ==
    /\ before_request
    /\ active_sessions' = validate_session_token(SessionsAtHandler, token)
    /\ unswept' = validate_session_token(unswept, token)
    /\ RecordValidate(SessionsAtHandler, token)
    /\ request' = [op |-> "validate", token |-> token,
                   swept |-> IF SessionHonored(SessionsAtHandler, token)
                             THEN SessionsAtHandler[token] ELSE PyNone,
                   plain |-> IF SessionHonored(unswept, token)
                             THEN unswept[token] ELSE PyNone]
    /\ UNCHANGED <<issued, revoked, clockVars>>
    /\ SweepFrame
\* logout
SessionRevoked(token) ==
    /\ before_request
    /\ active_sessions' = revoke_session_token(SessionsAtHandler, token)
    /\ unswept' = revoke_session_token(unswept, token)
    /\ revoked' = IF token \in DOMAIN issued THEN revoked \cup {token} ELSE revoked
    /\ request' = [op |-> "revoke", token |-> token]
    /\ UNCHANGED <<issued, rejected, clockVars>>
    /\ SweepFrame
SweepTick(d) ==
    /\ Tick(d)
    /\ UNCHANGED <<response, sideVars>>


(***************************************************************************)
(* Registration and names at the boundary: the requests a client can send. *)
(***************************************************************************)
\* 51 characters each
LongName == "A portfolio name that is fifty-one characters long."
LongUsername == "a_username_that_is_fifty-one_characters_long_in_all"
\* a password for each rule of validate_strong_password
PasswordWithout(rule) ==
    [StrongPassword EXCEPT ![rule] = FALSE]
ShortPassword == [StrongPassword EXCEPT !.length = 7]
RegistrationPasswords ==
    {StrongPassword, ShortPassword}
    \cup {PasswordWithout(rule) : rule \in {"upper", "lower", "digit", "special"}}
RegistrationNames == {"Main", "", LongName}
RegistrationUsernames == {"alice", "bob", "al", "", LongUsername}

\* the status create_portfolio answers with
create_portfolio_status(username, password, name, fail) ==
    LET exists == \E u \in DOMAIN users : users[u].username = username
    IN  IF username = "" \/ Len(username) < USERNAME_MIN THEN 400
        ELSE IF Len(username) > USERNAME_MAX THEN 400
        ELSE IF ~validate_strong_password(password) THEN 400
        ELSE IF name = "" THEN 400
        ELSE IF fail = 1 THEN 500
        ELSE IF exists THEN 409
        ELSE IF fail \in {2, 3} THEN 500
        ELSE 201
RegistrationRequest(username, password, name, fail) ==
    /\ create_portfolio(username, password, name, fail)
    /\ response' = [op |-> "register", user_id |-> 0, portfolio_id |-> 0,
                    status |-> create_portfolio_status(username, password, name, fail),
                    body |-> NoRow]
    /\ request' = [op |-> "register", username |-> username, password |-> password,
                   name |-> name, fail |-> fail]
    /\ UNCHANGED <<sel, cacheVars, stock_call, unswept>>


(***************************************************************************)
(* Claims about the portfolio repository and the session table.            *)
(***************************************************************************)
\* C1 as stated: after any sequence of register, create-portfolio,
\* delete-portfolio and select-portfolio operations executed one at a time,
\* every user who has at least one portfolio has exactly one portfolio with
\* is_default = true.
C1_ExactlyOneDefault ==
    \A u \in DOMAIN users :
        PortfoliosOf(portfolios, u) # {} =>
            Cardinality(DefaultsOf(portfolios, u)) = 1

\* C10: validate_session_token returns a session for a token only if the
\* token was created by login/registration, has not been revoked by logout
\* and the current time is not past its expiry (creation time plus the
\* session lifetime); a token rejected by a validate call is out of the
\* session table, and is never honored again.
C10_OnlyLiveTokensHonored ==
    /\ \A t \in Tokens :
          SessionHonored(active_sessions, t) =>
              /\ t \in DOMAIN issued
              /\ t \notin revoked
              /\ ~(now > issued[t].created_at + SESSION_LIFETIME_SECONDS)
              /\ active_sessions[t].user_id = issued[t].user_id
    /\ \A t \in rejected \cup revoked :
          /\ t \notin DOMAIN active_sessions
          /\ ~SessionHonored(active_sessions, t)

\* a token that no cleanup sweep met expired is rejected by a validate call
\* past its expiry and is out of the table
C10_Witness ==
    \E t \in rejected :
        /\ t \notin revoked
        /\ now > issued[t].expires_at
        /\ ~(last_cleanup_time > issued[t].expires_at)
        /\ t \notin DOMAIN active_sessions

(***************************************************************************)
(* Claims about batch price resolution.                                    *)
(***************************************************************************)
\* the distinct upper-case tickers the portfolios of users 1..n name
TickersOfUser(u) ==
    {t \in {"AAPL", "MSFT", "GOOG"} :
        \E p \in 1..Len(b_request.users[u]) :
            \E i \in 1..Len(b_request.users[u][p]) :
                Upper(b_request.users[u][p][i].ticker) = t}
Holders(t, n) == Cardinality({u \in 1..n : t \in TickersOfUser(u)})
UsersBegun == IF b_user > Len(b_request.users) THEN Len(b_request.users) ELSE b_user
FetchesOf(t) == Get(b_fetches, t, 0)
TotalPortfolios ==
    SumSeq([u \in 1..Len(b_request.users) |-> Len(b_request.users[u])])

\* C2 as stated: in one batch-resolution call (get-all-returns,
\* update-all-returns, background metrics update)
\* fetch_current_price_for_ticker is invoked exactly once per distinct
\* uppercase ticker across all the input portfolios.
C2_AsStated ==
    /\ DOMAIN b_fetches \subseteq {"AAPL", "MSFT", "GOOG"}
    /\ \A t \in {"AAPL", "MSFT", "GOOG"} :
          /\ FetchesOf(t) <= 1
          /\ b_pc = "done" =>
                FetchesOf(t) = IF Holders(t, Len(b_request.users)) > 0 THEN 1 ELSE 0

\* C2, amended: fetch_current_price_for_ticker is invoked exactly once per
\* distinct uppercase ticker across the portfolios of one user, however many
\* positions or portfolios of that user name the ticker; a call that goes
\* through several users (the background metrics update) fetches a ticker
\* once for every user who holds it.
C2_OncePerTickerPerUser ==
    /\ DOMAIN b_fetches \subseteq {"AAPL", "MSFT", "GOOG"}
    /\ \A t \in {"AAPL", "MSFT", "GOOG"} :
          /\ FetchesOf(t) <= Holders(t, UsersBegun)
          /\ b_pc = "value" => FetchesOf(t) = Holders(t, b_user)
          /\ b_pc = "done" => FetchesOf(t) = Holders(t, Len(b_request.users))

\* two portfolios holding AAPL plus one holding MSFT: 2 fetches
C2_Witness ==
    /\ b_request = ScenarioRequest
    /\ b_pc = "done"
    /\ Len(b_results) = 3
    /\ DOMAIN b_fetches = {"AAPL", "MSFT"}
    /\ FetchesOf("AAPL") + FetchesOf("MSFT") = 2

\* the price the fallback chain of the specification gives ticker t, from
\* what the provider and the Price Cache answered its fetch
ChainPrice(t) ==
    LET q == b_quotes[t]
        last_close == get_last_close_price(t, q.store_up)
    IN  IF ~q.crash /\ LiveQuoteAccepted(q.resp)
        THEN q.resp.json["c"]
        ELSE IF last_close.type = "dict" /\ last_close.items.close > 0
        THEN last_close.items.close
        ELSE 0

\* C3 as stated: the per-ticker fetch returns the live quote when the
\* provider yields a price > 0; otherwise the last cached close of the
\* ticker when one exists and is > 0; otherwise 0.
C3_FallbackChain ==
    \A t \in DOMAIN b_futures :
        (t \in DOMAIN b_quotes /\ ~b_quotes[t].crash) =>
            b_futures[t].price = ChainPrice(t)

\* the ticker->price map when valuation reads it: every batch has been run
\* and joined, and the map has one entry per distinct ticker of the user
PriceMapComplete ==
    /\ ~(b_i < Len(b_ticker_list))
    /\ \A t \in DOMAIN b_futures : b_futures[t].state = "collected"
    /\ DOMAIN b_price_cache = TickersOfUser(b_user)
    /\ DOMAIN b_quotes = TickersOfUser(b_user)
    /\ \A t \in DOMAIN b_price_cache :
          (b_quotes[t].crash
             \/ (~LiveQuoteAccepted(b_quotes[t].resp)
                   /\ get_last_close_price(t, b_quotes[t].store_up) = PyNone))
            => b_price_cache[t] = 0

\* C4: valuation of a portfolio starts only after every batch's worker
\* tasks have finished, and then the ticker-to-price map has exactly one
\* entry for each requested distinct ticker (0 for a ticker whose fetch
\* failed completely); valuation never reads a partially populated map.
C4_ValuationAfterJoin ==
    [][(b_results' # b_results) => PriceMapComplete]_vars

\* three tickers in more than one batch, one fetch failed completely, and a
\* portfolio valued
C4_Witness ==
    /\ b_results # <<>>
    /\ b_pc = "value"
    /\ Len(b_ticker_list) = 3
    /\ \E t \in DOMAIN b_quotes : b_quotes[t].crash /\ b_price_cache[t] = 0
    /\ \E t \in DOMAIN b_quotes : b_price_cache[t] = LivePrice

\* C32: within one batch-resolution call the fetches of different batches
\* never overlap (when a batch is submitted every fetch of the batch before
\* it has completed), and at no time are more fetches in flight than the
\* batch size, which is also the size of the worker pool (20 in the code).
InFlight(futures) == {t \in DOMAIN futures : futures[t].state = "running"}
Unfinished(futures) ==
    {t \in DOMAIN futures : futures[t].state \in {"pending", "running"}}
BatchSubmitted == b_pc = "submit" /\ b_pc' = "wait"
C32_BatchesSequential ==
    [][/\ BatchSubmitted => Unfinished(b_futures) = {}
       /\ Cardinality(InFlight(b_futures')) <= BatchSize
       /\ Cardinality(InFlight(b_futures')) <= MaxWorkers]_vars
\* the second batch of a call is being fetched while the first batch's two
\* prices are in the map
C32_Witness ==
    /\ b_i = BatchSize
    /\ b_pc = "wait"
    /\ InFlight(b_futures) # {}
    /\ Cardinality(DOMAIN b_price_cache) = BatchSize
    /\ Len(b_ticker_list) > BatchSize

\* C33 as stated: when positions are enriched after batch resolution, a
\* position whose ticker could not be priced (no live quote and no cached
\* close) is valued at its purchase price, so that the value computed for its
\* portfolio is the one computed with zero gain/loss on that position.
Unpriced(t) ==
    /\ ~LiveQuoteAccepted(b_quotes[t].resp)
    /\ get_last_close_price(t, b_quotes[t].store_up) = PyNone
ValuedAtPurchaseIfUnpriced(positions) ==
    LET kept == SelectSeq(positions, LAMBDA pos : Upper(pos.ticker) # "")
    IN  [i \in 1..Len(kept) |->
            [ticker |-> kept[i].ticker,
             shares |-> kept[i].shares,
             purchase_price |-> kept[i].purchase_price,
             current_price |-> IF Unpriced(Upper(kept[i].ticker))
                               THEN kept[i].purchase_price
                               ELSE b_price_cache[Upper(kept[i].ticker)]]]
C33_UnpricedAtPurchasePrice ==
    [][b_results' # b_results =>
          LET expected == ValuedAtPurchaseIfUnpriced(portfolios_data[b_j])
          IN  b_results'[Len(b_results')].value =
                 IF b_request.kind = "returns"
                 THEN calculate_portfolio_return(expected)
                 ELSE calculate_portfolio_metrics_from_positions(expected).total_value]_vars

\* C5 as stated: a failure (exception or timeout) while fetching one ticker
\* never aborts the call: every other ticker still receives the price its
\* own fetch produced, the call returns a result for every portfolio, and
\* the failing ticker's price is the one given by the fallback chain.
FetchFailed(t) == b_quotes[t].crash \/ b_quotes[t].resp.raised
C5_FailureIsolated ==
    /\ b_pc = "value" =>
          \A t \in TickersOfUser(b_user) :
              /\ t \in DOMAIN b_price_cache
              /\ FetchFailed(t) => b_price_cache[t] = ChainPrice(t)
              /\ ~FetchFailed(t) =>
                    b_price_cache[t] =
                        fetch_current_price_for_ticker(t, b_quotes[t].resp,
                                                       b_quotes[t].store_up)
    /\ b_pc = "done" => Len(b_results) = TotalPortfolios

\* the part of C5 the code keeps: no failure aborts the call
C5_NeverAborts ==
    /\ b_pc = "value" =>
          \A t \in TickersOfUser(b_user) :
              /\ t \in DOMAIN b_price_cache
              /\ ~b_quotes[t].crash =>
                    b_price_cache[t] =
                        fetch_current_price_for_ticker(t, b_quotes[t].resp,
                                                       b_quotes[t].store_up)
    /\ b_pc = "done" => Len(b_results) = TotalPortfolios

\* C11: a session token's expiry is fixed at creation time + 7 days and is
\* never changed afterwards: no validate call, portfolio-select call or
\* other request extends or shortens it.
C11_ExpiryFixed ==
    [][\A t \in DOMAIN active_sessions' :
          IF t \in DOMAIN active_sessions
          THEN /\ active_sessions'[t].expires_at = active_sessions[t].expires_at
               /\ active_sessions'[t].created_at = active_sessions[t].created_at
          ELSE /\ active_sessions'[t].created_at = now
               /\ active_sessions'[t].expires_at = now + SESSION_LIFETIME_SECONDS]_vars

\* a token still in the table at its last second, after a request handled
\* later than its creation, with the expiry it was created with
C11_Witness ==
    \E t \in DOMAIN active_sessions :
        /\ now = active_sessions[t].expires_at
        /\ last_cleanup_time > active_sessions[t].created_at
        /\ active_sessions[t].expires_at =
              active_sessions[t].created_at + SESSION_LIFETIME_SECONDS

\* C12: a portfolio id owned by another user is answered exactly as an id that
\* does not exist, by details, save, rename, delete and select alike, and such
\* a request leaves every user's stored portfolios as they were.
ForeignTo(user_id, portfolio_id) ==
    portfolio_id \in DOMAIN portfolios /\ portfolios[portfolio_id].user_id # user_id
C12_SameAnswers(t, foreign, missing) ==
    /\ \A f \in 0..1 :
          details_response(t, foreign, f) = details_response(t, missing, f)
    /\ \A f \in 0..2, ps \in SavedPositions :
          save_response(t, ps, foreign, f) = save_response(t, ps, missing, f)
    /\ \A f \in 0..3, n \in NewNames :
          rename_response(t, foreign, n, f) = rename_response(t, missing, n, f)
    /\ \A f \in 0..5 :
          delete_response(t, foreign, f) = delete_response(t, missing, f)
    /\ \A f \in 0..3 :
          select_response(t, foreign, f) = select_response(t, missing, f)
C12_ForeignIsMissing ==
    /\ [](\A t \in DOMAIN SessionsAtHandler, foreign \in PortfolioIds :
             ForeignTo(SessionsAtHandler[t].user_id, foreign) /\ Authenticated(t)
                => \A missing \in PortfolioIds \ DOMAIN portfolios :
                      C12_SameAnswers(t, foreign, missing))
    /\ [][ForeignTo(response'.user_id, response'.portfolio_id) /\ response'.user_id # 0
             => /\ portfolios' = portfolios
                /\ users' = users
                /\ response'.status \in {400, 404}
                /\ response'.body = NoRow]_vars
C12_Witness ==
    /\ response.op \in {"details", "save", "rename", "delete", "select"}
    /\ response.user_id # 0
    /\ ForeignTo(response.user_id, response.portfolio_id)
    /\ response.status \in {400, 404}
    /\ PortfolioIds \ DOMAIN portfolios # {}

\* C13: registrations and portfolio creations, one request at a time, never
\* leave a user with more than five portfolios, and a creation for a user who
\* has five is refused and leaves the stored portfolios as they were.
C13_AtMostFive ==
    /\ [](\A u \in UserIds :
             Cardinality(PortfoliosOf(portfolios, u)) <= MAX_PORTFOLIOS)
    /\ [][/\ response' # response
           /\ response'.op = "create"
           /\ Cardinality(PortfoliosOf(portfolios, response'.user_id)) >= MAX_PORTFOLIOS
           => response'.status = 400 /\ portfolios' = portfolios]_vars
C13_Witness ==
    /\ response.op = "create"
    /\ response.status = 400
    /\ Cardinality(PortfoliosOf(portfolios, response.user_id)) = MAX_PORTFOLIOS
    /\ next_portfolio_id \in PortfolioIds

\* C14: deleting a user's only portfolio is refused and leaves the stored
\* portfolios, positions and default flags as they were; no request takes a
\* user who has a portfolio down to none.
C14_LastPortfolioStays ==
    /\ [][/\ response'.op = "delete"
           /\ response'.user_id # 0
           /\ PortfoliosOf(portfolios, response'.user_id) = {response'.portfolio_id}
           => response'.status = 400 /\ portfolios' = portfolios]_vars
    /\ [][\A u \in UserIds :
             PortfoliosOf(portfolios, u) # {} => PortfoliosOf(portfolios', u) # {}]_vars
C14_Witness ==
    /\ response.op = "delete"
    /\ response.status = 400
    /\ response.user_id # 0
    /\ PortfoliosOf(portfolios, response.user_id) = {response.portfolio_id}

\* C15: a delete that succeeds on the user's default portfolio leaves exactly
\* one default among the user's remaining portfolios; one that succeeds on a
\* portfolio that is not the default leaves every other row as it was.
C15_DefaultAfterDelete ==
    [][response'.op = "delete" /\ response'.status = 200
          => LET u == response'.user_id
                 p == response'.portfolio_id
             IN  /\ DOMAIN portfolios' = DOMAIN portfolios \ {p}
                 /\ IF portfolios[p].is_default
                    THEN /\ Cardinality(DefaultsOf(portfolios', u)) = 1
                         /\ \A q \in DOMAIN portfolios' :
                               portfolios[q].user_id # u => portfolios'[q] = portfolios[q]
                    ELSE \A q \in DOMAIN portfolios' : portfolios'[q] = portfolios[q]]_vars
\* the deleted portfolio was the default: it was the session's active one and
\* a default exists
C15_Witness ==
    /\ response.op = "delete"
    /\ response.status = 200
    /\ response.portfolio_id \notin DOMAIN portfolios
    /\ \E t \in DOMAIN active_sessions :
          /\ active_sessions[t].user_id = response.user_id
          /\ active_sessions[t].active_portfolio_id = response.portfolio_id
    /\ Cardinality(DefaultsOf(portfolios, response.user_id)) = 1
    /\ Cardinality(PortfoliosOf(portfolios, response.user_id)) > 1

\* C16: two select requests of one user for different portfolios, their store
\* updates interleaved in any order, end with exactly one default portfolio.
C16_OneDefaultAfterSelects ==
    \A r1, r2 \in Requests :
        /\ r1 # r2
        /\ \A r \in Requests : sel[r].pc \in {"idle", "done"}
        /\ sel[r1].pc = "done" /\ sel[r1].status = 200
        /\ sel[r2].pc = "done" /\ sel[r2].status = 200
        /\ sel[r1].user_id = sel[r2].user_id
        /\ sel[r1].portfolio_id # sel[r2].portfolio_id
        => Cardinality(DefaultsOf(portfolios, sel[r1].user_id)) = 1

\* C38 as stated: when two delete requests of one user for two different
\* portfolios interleave at their store reads and writes, the user has at
\* least one portfolio after both complete and exactly one of the remaining
\* portfolios is default.
BothCompleted(r1, r2) ==
    /\ r1 # r2
    /\ \A r \in Requests : sel[r].pc \in {"idle", "done"}
    /\ sel[r1].pc = "done" /\ sel[r2].pc = "done"
    /\ sel[r1].user_id = sel[r2].user_id
    /\ sel[r1].user_id # 0
C38_DeletesLeaveOneDefault ==
    \A r1, r2 \in Requests :
        BothCompleted(r1, r2) /\ sel[r1].portfolio_id # sel[r2].portfolio_id
        => /\ PortfoliosOf(portfolios, sel[r1].user_id) # {}
           /\ Cardinality(DefaultsOf(portfolios, sel[r1].user_id)) = 1

\* C39 as stated: when two create requests of one user interleave at their
\* count check and their insert, the user never has more than 5 portfolios
\* and never more than one default portfolio.
C39_CapHoldsUnderRace ==
    \A u \in DOMAIN users :
        /\ Cardinality(PortfoliosOf(portfolios, u)) <= 5
        /\ Cardinality(DefaultsOf(portfolios, u)) <= 1

(***************************************************************************)
(* Claims about the Price Cache.                                           *)
(***************************************************************************)
\* C17: saving points that are stored already, with the same close, leaves
\* the table as it was, and the table never holds two rows for one
\* (ticker, date).
C17_UpsertIdempotent ==
    /\ [](\A r \in BagToSet(price_rows) :
             /\ CopiesIn(r, price_rows) = 1
             /\ \A q \in BagToSet(price_rows) :
                   q.ticker = r.ticker /\ q.date = r.date => q = r)
    /\ [][cache_call'.op = "save" /\ cache_call'.known
             => price_rows' = price_rows]_vars
C17_Witness ==
    /\ cache_call.op = "save"
    /\ cache_call.known
    /\ cache_call.outcome = "ok"
    /\ cache_call.result = TRUE
    /\ BagCardinality(price_rows) = Len(cache_call.prices)

\* C37 as stated: whenever save_prices_to_db returns True for a non-empty
\* list of points, every (ticker, date) of the list is stored afterwards, also
\* when the list mixes stored dates with new ones.
C37_TrueMeansStored ==
    [][(cache_call'.op = "save" /\ cache_call'.result = TRUE)
          => \A i \in 1..Len(cache_call'.prices) :
                RowsOf(price_rows', Upper(cache_call'.ticker),
                       cache_call'.prices[i].date, cache_call'.prices[i].date) # {}]_vars

\* C18: after a save that reached the store, a range read of the same ticker
\* in either letter case, over any range that covers a saved point's date,
\* returns that date once, with the saved close, in a list ascending by date.
Ascending(result) ==
    \A i \in 1..Len(result), j \in 1..Len(result) :
        i < j => result[i].date < result[j].date
C18_ReadsWhatWasSaved ==
    [][cache_call'.op = "save" /\ cache_call'.outcome = "ok"
          => \A i \in 1..Len(cache_call'.prices), t \in CacheTickers,
                from_date \in Dates, to_date \in Dates :
                LET point == cache_call'.prices[i]
                    got == get_cached_prices_from_db(price_rows', t, from_date,
                                                     to_date, AnsweredRun, TRUE).result
                IN  from_date <= point.date /\ point.date <= to_date
                       => /\ Cardinality({k \in 1..Len(got) :
                                              got[k].date = point.date}) = 1
                          /\ \E k \in 1..Len(got) :
                                got[k] = [date |-> point.date,
                                          close |-> point.close.value]
                          /\ Ascending(got)]_vars
C18_Witness ==
    /\ cache_call.op = "range"
    /\ cache_call.ticker = "aapl"
    /\ cache_call.outcome = "ok"
    /\ Len(cache_call.result) = 2
    /\ cache_call.result[1].date < cache_call.result[2].date

\* C19: a Price Cache call passes through its try block at most twice, a
\* second time only after a connection failure, once on any other failure;
\* when the store did not answer it returns [], None or False.
Degraded(op) ==
    IF op = "range" THEN <<>> ELSE IF op = "save" THEN FALSE ELSE PyNone
C19_BoundedRetries ==
    cache_call.op # "none" =>
        /\ cache_call.tries <= RETRIES
        /\ cache_call.tries = 2 => IsTransient(cache_call.run[1])
        /\ cache_call.outcome \in {"other", "duplicate key"} /\ cache_call.tries >= 1
              => cache_call.tries = 1 \/ IsTransient(cache_call.run[1])
        /\ ~IsTransient(cache_call.run[1]) => cache_call.tries <= 1
        /\ cache_call.outcome \in {"ok", "connection", "other", "duplicate key",
                                    "no client", "not tried"}
        /\ cache_call.outcome \notin {"ok", "duplicate key"}
              => cache_call.result = Degraded(cache_call.op)
        /\ cache_call.outcome = "duplicate key" => cache_call.op = "save"
C19_Witness ==
    /\ cache_call.op \in {"range", "last_close", "last_sync", "save"}
    /\ cache_call.tries = 2
    /\ cache_call.run[1] = "connection"
    /\ cache_call.run[2] # "ok"
    /\ cache_call.result = Degraded(cache_call.op)
    /\ price_rows # EmptyBag

(***************************************************************************)
(* Claims about quote resolution.                                          *)
(***************************************************************************)
\* C20: when the provider answers both requests and the quote carries a price
\* above 0 but None for previous close, change and change percent, both
\* handlers answer 200 with previous_close equal to current_price and with
\* change_amount and change_percent 0.
PriceOnlyQuote(call) ==
    /\ call.api_key
    /\ ~call.quote.raised
    /\ call.quote.status_code = 200
    /\ QuoteGet(call.quote.json, "c").type = "float"
    /\ QuoteGet(call.quote.json, "c").value > 0
    /\ \A k \in {"pc", "d", "dp"} : QuoteGet(call.quote.json, k).type = "NoneType"
    /\ ~call.profile.raised
C20_PriceOnlyQuoteResolved ==
    stock_call.op \in {"stock", "instant"} /\ PriceOnlyQuote(stock_call)
       => /\ stock_call.answer.status = 200
          /\ stock_call.answer.body.previous_close = stock_call.answer.body.current_price
          /\ stock_call.answer.body.current_price =
                IF stock_call.op = "stock"
                THEN RoundPrice(stock_call.quote.json.c.value)
                ELSE stock_call.quote.json.c
          /\ stock_call.answer.body.change_amount =
                IF stock_call.op = "stock" THEN 0 ELSE PyFloat(0)
          /\ stock_call.answer.body.change_percent =
                IF stock_call.op = "stock" THEN 0 ELSE PyFloat(0)
C20_WitnessStock ==
    /\ stock_call.op = "stock"
    /\ PriceOnlyQuote(stock_call)
    /\ stock_call.quote.json.c = PyFloat(45004)
    /\ stock_call.answer.status = 200
    /\ stock_call.answer.body.previous_close = 4500

\* C21: a live quote whose current value is absent (no 'c', or None) or exactly
\* zero is never reported as a valid price: /api/stock/<ticker> answers 404,
\* /api/stock/<ticker>/instant answers 200 with current_price, change_amount,
\* change_percent and previous_close all None, and the batch fetch returns
\* what it returns when there is no live quote at all.
AbsentOrZeroQuote(call) ==
    /\ call.api_key
    /\ ~call.quote.raised
    /\ call.quote.status_code = 200
    /\ \/ QuoteGet(call.quote.json, "c").type = "NoneType"
       \/ QuoteGet(call.quote.json, "c") = PyFloat(0)
C21_NoPriceFromEmptyQuote ==
    stock_call.op \in {"stock", "instant", "price"} /\ AbsentOrZeroQuote(stock_call)
       => CASE stock_call.op = "stock" -> stock_call.answer.status = 404
            [] stock_call.op = "instant" ->
                  /\ stock_call.answer.status = 200
                  /\ \A k \in {"current_price", "change_amount", "change_percent",
                               "previous_close"} :
                         stock_call.answer.body[k] = PyNone
            [] stock_call.op = "price" ->
                  stock_call.answer =
                     1000 * fetch_current_price_for_ticker("aapl", QuoteRaised,
                                                           stock_call.store_up)
\* the instant endpoint was asked with a quote of 0 that carries a previous
\* close and a change, and answered 200 without any of them
C21_Witness ==
    /\ stock_call.op = "instant"
    /\ AbsentOrZeroQuote(stock_call)
    /\ stock_call.quote.json = [c |-> PyFloat(0), pc |-> PyFloat(44000),
                                d |-> PyFloat(1004), dp |-> PyFloat(2282)]
    /\ stock_call.answer.status = 200
    /\ stock_call.answer.body.current_price = PyNone

\* C31: /api/stock/<ticker> answers every bad upstream input with an error
\* response: a network timeout of the quote provider gives 500 with an error
\* field, a current price that is not a number gives 400 or 404 with an error
\* field, and neither response carries a price.
QuoteTimedOut(call) == call.api_key /\ call.quote.raised
NonNumericPrice(call) ==
    /\ call.api_key
    /\ ~call.quote.raised
    /\ call.quote.status_code = 200
    /\ QuoteGet(call.quote.json, "c") \in {PyDict(<<>>), PyText("invalid")}
ErrorWithoutPrice(answer) ==
    /\ "error" \in DOMAIN answer.body
    /\ "current_price" \notin DOMAIN answer.body
C31_BadUpstreamAnswered ==
    stock_call.op = "stock"
       => /\ QuoteTimedOut(stock_call)
             => stock_call.answer.status = 500 /\ ErrorWithoutPrice(stock_call.answer)
          /\ NonNumericPrice(stock_call)
             => /\ stock_call.answer.status \in {400, 404}
                /\ ErrorWithoutPrice(stock_call.answer)
          /\ stock_call.answer.status # 200 => ErrorWithoutPrice(stock_call.answer)
\* the provider answered 'invalid' as the current price and the handler
\* answered 400
C31_Witness ==
    /\ stock_call.op = "stock"
    /\ NonNumericPrice(stock_call)
    /\ QuoteGet(stock_call.quote.json, "c") = PyText("invalid")
    /\ stock_call.answer.status = 400
    /\ "error" \in DOMAIN stock_call.answer.body

(***************************************************************************)
(* Claims about the market calendar.                                       *)
(***************************************************************************)
\* C22 as stated: is_market_open returns true exactly when the exchange-local
\* instant is on a weekday and its local time is in the half-open interval
\* [09:30, 16:00): true at 09:30:00, false at 16:00:00, false at 09:29 and at
\* every instant on Saturday or Sunday.
InTradingHours(local) ==
    /\ local.weekday <= 4
    /\ local.hour * 60 + local.minute >= 9 * 60 + 30
    /\ local.hour < 16
C22_OpenInHalfOpenInterval ==
    stock_call.op = "market"
       => (stock_call.answer <=> InTradingHours(stock_call.local))

(***************************************************************************)
(* Claims about the history endpoint.                                      *)
(***************************************************************************)
\* C23: the history endpoint consults the Price Cache first and calls the
\* provider only when the cache returns no points for the requested ticker and
\* range; a non-empty provider fetch that the store accepts is in the Price
\* Cache when the response is returned, and an identical request that follows
\* it, with the store answering, is served from the cache without a provider
\* call.
HistoryRange(call) ==
    RowsOf(price_rows, Upper(call.ticker), call.from_date,
           IF call.to_date = PyNone THEN Today ELSE call.to_date.value)
FetchedAndStored(call) ==
    /\ call.op = "history"
    /\ call.answer.status = 200
    /\ call.answer.source = "yfinance"
    /\ call.supabase
    /\ call.save_run = AnsweredRun
C23_CacheFirstThenPersist ==
    [][cache_call'.op = "history" =>
          /\ cache_call'.answer.provider_calls = 0 =>
                /\ HistoryRange(cache_call') # {}
                /\ cache_call'.answer.source = "database"
                /\ price_rows' = price_rows
          /\ /\ cache_call'.supabase
             /\ cache_call'.read_run = AnsweredRun
             /\ HistoryRange(cache_call') # {}
             => cache_call'.answer.provider_calls = 0
          /\ FetchedAndStored(cache_call') =>
                \A i \in 1..Len(cache_call'.answer.prices) :
                    [ticker |-> Upper(cache_call'.ticker),
                     date |-> cache_call'.answer.prices[i].date,
                     close |-> cache_call'.answer.prices[i].close]
                        \in BagToSet(price_rows')
          /\ /\ FetchedAndStored(cache_call)
             /\ cache_call'.ticker = cache_call.ticker
             /\ cache_call'.from_date = cache_call.from_date
             /\ cache_call'.to_date = cache_call.to_date
             /\ cache_call'.supabase
             /\ cache_call'.read_run = AnsweredRun
             => /\ cache_call'.answer.status = 200
                /\ cache_call'.answer.source = "database"
                /\ cache_call'.answer.provider_calls = 0]_vars
\* a request without to_date is served two points from the cache, which only
\* an earlier provider fetch of this endpoint can have stored
C23_Witness ==
    /\ cache_call.op = "history"
    /\ cache_call.to_date = PyNone
    /\ cache_call.answer.source = "database"
    /\ cache_call.answer.provider_calls = 0
    /\ Len(cache_call.answer.prices) = 2


(***************************************************************************)
(* Claims about the callers of the provider capabilities.                  *)
(***************************************************************************)
\* C24 as stated: when a provider capability has no credentials configured, or
\* the provider has no data for the symbol, every caller of the live-quote and
\* news capabilities answers a normal empty or absent result, not a
\* server-error response.
NotConfigured(call) == ~call.api_key
NoData(call) ==
    /\ call.api_key
    /\ IF call.op = "news"
       THEN /\ ~call.news.raised
            /\ call.news.status_code = 200
            /\ call.news.json \in {[meta |-> <<>>], [data |-> <<>>]}
       ELSE AbsentOrZeroQuote(call)
C24_AbsentNotFailure ==
    /\ stock_call.op \in {"stock", "instant", "news"}
    /\ NotConfigured(stock_call) \/ NoData(stock_call)
    => stock_call.answer.status < 500


(***************************************************************************)
(* Claims about saving position lists.                                     *)
(***************************************************************************)
\* C25 as stated: a position with an empty or ill-shaped ticker, shares <= 0
\* or purchase_price <= 0 is rejected when a position list is saved, so every
\* stored position has a well-shaped, non-empty ticker, shares > 0 and
\* purchase_price > 0.
WellFormed(position) ==
    /\ position.ticker \in {"AAPL", "MSFT"}
    /\ position.shares > 0
    /\ position.purchase_price > 0
C25_StoredPositionsWellFormed ==
    \A p \in DOMAIN portfolios :
        \A i \in 1..Len(portfolios[p].positions) :
            WellFormed(portfolios[p].positions[i])

\* C26 as stated: saving a position list to an owned portfolio replaces the
\* portfolio's positions as a whole: for every submitted list the stored
\* positions after the save equal exactly the submitted list, and no other
\* portfolio's positions change.
SaveToOwned ==
    /\ request'.op = "save"
    /\ response'.user_id # 0
    /\ response'.portfolio_id \in DOMAIN portfolios
    /\ portfolios[response'.portfolio_id].user_id = response'.user_id
    /\ request'.fail = 0
C26_SaveReplacesPositions ==
    [][SaveToOwned =>
          /\ portfolios'[response'.portfolio_id].positions = request'.positions
          /\ \A q \in DOMAIN portfolios \ {response'.portfolio_id} :
                 portfolios'[q] = portfolios[q]]_vars


(***************************************************************************)
(* Claims about the background metrics job.                                *)
(***************************************************************************)
\* C27: a failure while processing one user (loading the portfolios, fetching
\* prices, computing or storing metrics) never aborts the job: the loop goes
\* through every user of the run, every portfolio of a user whose own turn
\* met no failure has its metrics written, and the job ends with a success
\* response.
EntriesOf(user) == {i \in 1..Len(b_results) : b_results[i].user = user}
TurnFailed(user) ==
    \E i \in EntriesOf(user) : b_results[i].outcome # "stored"
C27_JobSurvivesUserFailure ==
    /\ b_pc = "done" => b_user > Len(b_request.users)
    /\ b_pc = "answered" /\ b_results # <<>> =>
          /\ response.status = 200
          /\ response.body.success
    /\ b_pc = "answered" /\ response.status = 200 =>
          \A u \in 1..Len(b_request.users) :
              /\ \/ \E i \in EntriesOf(u) : b_results[i].outcome = "user failed"
                 \/ \A p \in 1..Len(b_request.users[u]) :
                       \E i \in EntriesOf(u) : b_results[i].portfolio = p
              /\ ~TurnFailed(u) =>
                    \A p \in 1..Len(b_request.users[u]) :
                        \E i \in EntriesOf(u) :
                            /\ b_results[i].portfolio = p
                            /\ b_results[i].outcome = "stored"
                            /\ b_results[i].value # NoMetrics
\* the turn of the first user failed, one AAPL fetch of the third user's turn
\* left its call by an exception, and both portfolios of the third user were
\* written all the same; the job answered 200 with the counts 2 and 1
C27_Witness ==
    /\ b_pc = "answered"
    /\ response.status = 200
    /\ Len(b_request.users) = 3
    /\ \E i \in EntriesOf(1) : b_results[i].outcome = "user failed"
    /\ ~TurnFailed(3)
    /\ "AAPL" \in DOMAIN b_quotes /\ b_quotes["AAPL"].crash
    /\ response.body.updated_count = 2
    /\ response.body.failed_count = 1


\* C34 as stated: the updated_count the job reports is the number of
\* portfolios whose metrics were written during the run, and failed_count
\* counts every portfolio or user whose processing failed; a portfolio whose
\* metrics write failed is not counted as updated.
MetricsWritten == {i \in 1..Len(b_results) : b_results[i].outcome = "stored"}
ProcessingFailed ==
    {i \in 1..Len(b_results) : b_results[i].outcome \in {"failed", "user failed"}}
C34_CountsMatchWrites ==
    (b_pc = "answered" /\ response.op = "job" /\ response.status = 200)
       => /\ response.body.updated_count = Cardinality(MetricsWritten)
          /\ response.body.failed_count >= Cardinality(ProcessingFailed)

(***************************************************************************)
(* Claims about sessions and the portfolios they select.                   *)
(***************************************************************************)
\* C35 as stated: in every reachable state the active_portfolio_id of every
\* live session is empty or the id of an existing portfolio owned by the
\* session's user, also after the portfolio a session has selected is deleted.
C35_ActivePortfolioExists ==
    \A t \in DOMAIN active_sessions :
        \/ active_sessions[t].active_portfolio_id = NoPortfolio
        \/ active_sessions[t].active_portfolio_id
              \in PortfoliosOf(portfolios, active_sessions[t].user_id)

\* C40 as stated: if set_active_portfolio reports failure for any reason,
\* a store error on either of its two updates included, the is_default flags
\* of the user's portfolios and the session's active_portfolio_id are the
\* same as before the call, so that the user still has exactly one default
\* portfolio.
SelectFailed == response'.op = "select" /\ response'.status = 400
C40_FailedSelectChangesNothing ==
    [][SelectFailed =>
          /\ portfolios' = portfolios
          /\ \A t \in DOMAIN active_sessions' :
                t \in DOMAIN active_sessions
                   /\ active_sessions'[t].active_portfolio_id =
                         active_sessions[t].active_portfolio_id
          /\ Cardinality(DefaultsOf(portfolios', response'.user_id)) = 1]_vars

(***************************************************************************)
(* Claims about the periodic session sweep.                                *)
(***************************************************************************)
\* C28: the periodic session sweep is only an optimization: it runs at most
\* once per cleanup interval (3600 seconds), it removes exactly the entries
\* whose expiry has passed and never an unexpired one, and every
\* validate_session_token call returns the same in the execution with the
\* sweep as in the same execution without it.
SweepRan == last_cleanup_time' # last_cleanup_time
ExpiredIn(sessions, token) == now > sessions[token].expires_at
C28_SweepOnlyOptimizes ==
    [][/\ SweepRan =>
             /\ last_cleanup_time' = now
             /\ ~(now - last_cleanup_time < CLEANUP_INTERVAL_SECONDS)
             /\ DOMAIN SessionsAtHandler =
                   {t \in DOMAIN active_sessions : ~ExpiredIn(active_sessions, t)}
       /\ ticks' = ticks /\ ~SweepRan => SessionsAtHandler = active_sessions
       /\ \A t \in DOMAIN SessionsAtHandler : SessionsAtHandler[t] = active_sessions[t]
       /\ request'.op = "validate" /\ request' # request =>
             request'.swept = request'.plain]_vars
\* a validate call on an expired session that was not logged out, in a
\* request whose sweep ran: None in both executions
C28_Witness ==
    /\ request.op = "validate"
    /\ request.token \in DOMAIN issued
    /\ request.token \notin revoked
    /\ now > issued[request.token].expires_at
    /\ last_cleanup_time = now
    /\ request.swept = PyNone
    /\ request.plain = PyNone


(***************************************************************************)
(* Claims about registration and portfolio names.                          *)
(***************************************************************************)
\* C29: a registration succeeds only when the username has 3 to 50 characters
\* and is not taken and the password has at least 8 characters with an
\* uppercase letter, a lowercase letter, a digit and a special character; a
\* registration rejected with 400 or 409 creates no user, no portfolio and no
\* session; and all stored usernames are distinct.
Taken(username) == \E u \in DOMAIN users : users[u].username = username
C29_RegistrationValidated ==
    [][response'.op = "register" =>
          /\ response'.status = 201 =>
                /\ Len(request'.username) >= 3
                /\ Len(request'.username) <= 50
                /\ ~Taken(request'.username)
                /\ request'.password.length >= 8
                /\ request'.password.upper
                /\ request'.password.lower
                /\ request'.password.digit
                /\ request'.password.special
                /\ \E u \in DOMAIN users' \ DOMAIN users :
                       users'[u].username = request'.username
          /\ response'.status \in {400, 409} =>
                /\ users' = users
                /\ portfolios' = portfolios
                /\ issued' = issued
                /\ DOMAIN active_sessions' \subseteq DOMAIN active_sessions
          /\ \A u, v \in DOMAIN users' :
                users'[u].username = users'[v].username => u = v]_vars
\* alice is registered and a second registration under her name, with a
\* strong password, was answered 409
C29_Witness ==
    /\ response.op = "register"
    /\ response.status = 409
    /\ request.username = "alice"
    /\ request.password = StrongPassword
    /\ Cardinality({u \in DOMAIN users : users[u].username = "alice"}) = 1
    /\ Cardinality(DOMAIN portfolios) = 1

\* C36 as stated: after any registration attempt, whether it succeeds or
\* fails at any of its store steps, every stored user has at least one
\* portfolio and exactly one default portfolio.
C36_UserHasDefaultPortfolio ==
    \A u \in DOMAIN users :
        /\ PortfoliosOf(portfolios, u) # {}
        /\ Cardinality(DefaultsOf(portfolios, u)) = 1

\* C30 as stated: after any sequence of registration, create-portfolio and
\* rename-portfolio operations every stored portfolio name has between 1 and
\* 50 characters.
C30_NamesWithinLength ==
    \A p \in DOMAIN portfolios :
        /\ Len(portfolios[p].portfolio_name) >= 1
        /\ Len(portfolios[p].portfolio_name) <= 50


(***************************************************************************)
(* Specifications.                                                         *)
(***************************************************************************)
Register == \E r \in RegistrationRequests, f \in 0..3 :
                create_portfolio(r[1], r[2], r[3], f) /\ UNCHANGED <<response, sideVars>>
Login == \E r \in LoginRequests, f \in 0..2 :
             login_portfolio(r[1], r[2], f) /\ UNCHANGED <<response, sideVars>>
Logout == \E t \in Tokens : logout_portfolio(t) /\ UNCHANGED <<response, sideVars>>
ListPortfolios == \E t \in Tokens :
                      get_user_portfolios_endpoint(t) /\ UNCHANGED <<response, sideVars>>
CreatePortfolio == \E t \in Tokens, n \in PortfolioNames, f \in 0..3 :
                       create_user_portfolio_endpoint(t, n, f) /\ UNCHANGED <<response, sideVars>>
DeletePortfolio == \E t \in Tokens, p \in PortfolioIds, f \in 0..5 :
                       delete_portfolio_endpoint(t, p, f) /\ UNCHANGED <<response, sideVars>>
SelectPortfolio == \E t \in Tokens, p \in PortfolioIds, f \in 0..3 :
                       select_portfolio_endpoint(t, p, f) /\ UNCHANGED <<response, sideVars>>
ClockTick == \E d \in ClockSteps : Tick(d) /\ UNCHANGED <<response, sideVars>>

\* The portfolio repository behind its handlers, the clock standing still.
Init == ValIdle /\ AppInit /\ BatchIdle
Next ==
    \/ Register
    \/ Login
    \/ Logout
    \/ ListPortfolios
    \/ CreatePortfolio
    \/ DeletePortfolio
    \/ SelectPortfolio
Spec == Init /\ [][Next]_vars

\* The session table over time.
InitSess == ValIdle /\ AppInit /\ BatchIdle
NextSess ==
    \/ Register
    \/ Login
    \/ Logout
    \/ ListPortfolios
    \/ SelectPortfolio
    \/ ClockTick
SpecSess == InitSess /\ [][NextSess]_vars

InitVal == ValInit /\ AppInit /\ BatchIdle
NextVal == ComputeMetrics \/ ComputeReturn
SpecVal == InitVal /\ [][NextVal]_vars

\* One batch-resolution call, its workers interleaved with its main thread.
InitBatch == ValIdle /\ AppInit /\ BatchInit
Fetch == \E t \in DOMAIN b_futures : WorkerStart(t)
FetchDone == \E t \in DOMAIN b_futures, resp \in QuoteResponses,
                store_up \in BOOLEAN, crash \in BOOLEAN :
                 WorkerFinish(t, resp, store_up, crash)
CollectResult == \E t \in DOMAIN b_futures : Collect(t)
NextBatch ==
    \/ BeginUser
    \/ SubmitBatch
    \/ Fetch
    \/ FetchDone
    \/ CollectResult
    \/ ExitBatch
    \/ StartValuation
    \/ ValuePortfolio
SpecBatch == InitBatch /\ [][NextBatch]_vars

\* Two registered users with portfolios of their own, and the requests that
\* name a portfolio by its id.
OwnRow(user_id, is_default) ==
    [user_id |-> user_id, portfolio_name |-> "Main", positions |-> <<>>,
     is_default |-> is_default]
OwnSessions == 1 :> NewSession(1, "alice", 1)
InitOwn ==
    /\ ValIdle /\ BatchIdle
    /\ users = (1 :> [username |-> "alice", password_hash |-> hash_password(StrongPassword)]
                @@ 2 :> [username |-> "bob", password_hash |-> hash_password(StrongPassword)])
    /\ portfolios = (1 :> OwnRow(1, TRUE) @@ 2 :> OwnRow(1, FALSE) @@ 3 :> OwnRow(2, TRUE))
    /\ next_portfolio_id = 4
    /\ now = CLEANUP_INTERVAL_SECONDS
    /\ last_cleanup_time = 0
    /\ active_sessions = OwnSessions
    /\ issued = OwnSessions
    /\ revoked = {}
    /\ rejected = {}
    /\ ticks = 0
    /\ response = NoResponse
    /\ sel = SelIdle
    /\ price_rows = EmptyBag
    /\ cache_call = NoCall
    /\ stock_call = NoCall
    /\ request = NoCall
    /\ unswept = <<>>
DetailsRequest == \E t \in Tokens, p \in PortfolioIds \cup {NoPortfolio}, f \in 0..1 :
    /\ get_portfolio_details(t, p, f)
    /\ Answer("details", t, RequestedId(t, p), details_response(t, p, f))
    /\ UNCHANGED sideVars
SaveRequest == \E t \in Tokens, ps \in SavedPositions,
                  p \in PortfolioIds \cup {NoPortfolio}, f \in 0..2 :
    /\ save_portfolio_data(t, ps, p, f)
    /\ Answer("save", t, RequestedId(t, p), save_response(t, ps, p, f))
    /\ UNCHANGED sideVars
RenameRequest == \E t \in Tokens, p \in PortfolioIds, n \in NewNames, f \in 0..3 :
    /\ rename_portfolio_endpoint(t, p, n, f)
    /\ Answer("rename", t, p, rename_response(t, p, n, f))
    /\ UNCHANGED sideVars
DeleteRequest == \E t \in Tokens, p \in PortfolioIds, f \in 0..5 :
    /\ delete_portfolio_endpoint(t, p, f)
    /\ Answer("delete", t, p, delete_response(t, p, f))
    /\ UNCHANGED sideVars
SelectRequest == \E t \in Tokens, p \in PortfolioIds, f \in 0..3 :
    /\ select_portfolio_endpoint(t, p, f)
    /\ Answer("select", t, p, select_response(t, p, f))
    /\ UNCHANGED sideVars
NextOwn ==
    \/ DetailsRequest
    \/ SaveRequest
    \/ RenameRequest
    \/ DeleteRequest
    \/ SelectRequest
SpecOwn == InitOwn /\ [][NextOwn]_vars

\* Registrations and portfolio creations, one request at a time.
CreateRequest == \E t \in Tokens, n \in PortfolioNames \cup NewNames, f \in 0..3 :
    /\ create_user_portfolio_endpoint(t, n, f)
    /\ Answer("create", t, NoPortfolio, create_response(t, n, f))
    /\ UNCHANGED sideVars
InitCap == ValIdle /\ AppInit /\ BatchIdle
NextCap ==
    \/ Register
    \/ CreateRequest
SpecCap == InitCap /\ [][NextCap]_vars

\* A user with three portfolios deleting them and choosing the default.
InitDel ==
    /\ ValIdle /\ BatchIdle
    /\ users = (1 :> [username |-> "alice", password_hash |-> hash_password(StrongPassword)]
                @@ 2 :> [username |-> "bob", password_hash |-> hash_password(StrongPassword)])
    /\ portfolios = (1 :> OwnRow(1, TRUE) @@ 2 :> OwnRow(1, FALSE)
                     @@ 3 :> OwnRow(2, TRUE) @@ 4 :> OwnRow(1, FALSE))
    /\ next_portfolio_id = 5
    /\ now = CLEANUP_INTERVAL_SECONDS
    /\ last_cleanup_time = 0
    /\ active_sessions = OwnSessions
    /\ issued = OwnSessions
    /\ revoked = {}
    /\ rejected = {}
    /\ ticks = 0
    /\ response = NoResponse
    /\ sel = SelIdle
    /\ price_rows = EmptyBag
    /\ cache_call = NoCall
    /\ stock_call = NoCall
    /\ request = NoCall
    /\ unswept = <<>>
NextDel ==
    \/ DeleteRequest
    \/ SelectRequest
SpecDel == InitDel /\ [][NextDel]_vars

\* Select requests of one user in flight together.
InitSel ==
    /\ ValIdle /\ BatchIdle
    /\ users = (1 :> [username |-> "alice", password_hash |-> hash_password(StrongPassword)]
                @@ 2 :> [username |-> "bob", password_hash |-> hash_password(StrongPassword)])
    /\ portfolios = (1 :> OwnRow(1, TRUE) @@ 2 :> OwnRow(1, FALSE)
                     @@ 3 :> OwnRow(2, TRUE) @@ 4 :> OwnRow(1, FALSE))
    /\ next_portfolio_id = 5
    /\ now = CLEANUP_INTERVAL_SECONDS
    /\ last_cleanup_time = 0
    /\ active_sessions = OwnSessions
    /\ issued = OwnSessions
    /\ revoked = {}
    /\ rejected = {}
    /\ ticks = 0
    /\ response = NoResponse
    /\ sel = SelIdle
    /\ price_rows = EmptyBag
    /\ cache_call = NoCall
    /\ stock_call = NoCall
    /\ request = NoCall
    /\ unswept = <<>>
SelectArrives == \E r \in Requests, t \in Tokens, p \in PortfolioIds, f \in BOOLEAN :
                     SelectBegin(r, t, p, f)
SelectClears == \E r \in Requests, f \in BOOLEAN : SelectClear(r, f)
SelectSets == \E r \in Requests, f \in BOOLEAN : SelectSet(r, f)
NextSel ==
    \/ SelectArrives
    \/ SelectClears
    \/ SelectSets
SpecSel == InitSel /\ [][NextSel]_vars

\* The Price Cache written and read while the store answers.
InitCache == ValIdle /\ AppInit /\ BatchIdle
SaveStored == \E t \in CacheTickers, ps \in PriceLists, o \in {"ok", "duplicate key"} :
                  SavePrices(t, ps, [AnsweredRun EXCEPT ![1] = o], TRUE)
RangeRead == \E t \in CacheTickers, from_date \in Dates, to_date \in Dates :
                 ReadRange(t, from_date, to_date, AnsweredRun, TRUE)
NextCache ==
    \/ SaveStored
    \/ RangeRead
SpecCache == InitCache /\ [][NextCache]_vars

\* The Price Cache functions while the store fails in every way.
InitRetry == ValIdle /\ AppInit /\ BatchIdle
RetryLists == {ps \in PriceLists : Len(ps) <= 1}
SaveTried == \E ps \in RetryLists, run \in OutcomeRuns, supabase \in BOOLEAN :
                 SavePrices("AAPL", ps, run, supabase)
RangeTried == \E run \in ReadRuns, supabase \in BOOLEAN :
                  ReadRange("AAPL", 1, MaxDate, run, supabase)
LastCloseTried == \E run \in ReadRuns, supabase \in BOOLEAN :
                      ReadLastClose("AAPL", run, supabase)
LastSyncTried == \E run \in ReadRuns, supabase \in BOOLEAN :
                     ReadLastSync("AAPL", run, supabase)
NextRetry ==
    \/ SaveTried
    \/ RangeTried
    \/ LastCloseTried
    \/ LastSyncTried
SpecRetry == InitRetry /\ [][NextRetry]_vars

\* Quote requests against every answer of the provider.
InitQuote == ValIdle /\ AppInit /\ BatchIdle
StockAsked == \E k \in BOOLEAN, q \in StockQuotes, p \in Profiles :
                  StockRequest("aapl", k, q, p)
InstantAsked == \E k \in BOOLEAN, q \in StockQuotes, p \in Profiles, o \in BOOLEAN :
                    InstantRequest("aapl", k, q, p, o)
PriceAsked == \E k \in BOOLEAN, q \in StockQuotes, u \in BOOLEAN :
                  PriceRequest("aapl", k, q, u)
NewsAsked == \E k \in BOOLEAN, n \in NewsResponses : NewsRequest("aapl", k, n)
NextQuote ==
    \/ StockAsked
    \/ InstantAsked
    \/ PriceAsked
    \/ NewsAsked
SpecQuote == InitQuote /\ [][NextQuote]_vars


\* The market calendar asked at instants around its boundaries.
MarketAsked == \E t \in Instants, dst \in BOOLEAN : MarketRequest(t, dst)
NextMarket == MarketAsked
SpecMarket == InitQuote /\ [][NextMarket]_vars

\* History requests against a store and a provider that answer or fail.
HistoryRuns == {AnsweredRun, [AnsweredRun EXCEPT ![1] = "other"]}
HistoryAsked ==
    \E from_date \in Dates, to_date \in {PyNone} \cup {PyStr(d) : d \in Dates},
       read_run \in HistoryRuns, history \in HistoryAnswers,
       save_run \in HistoryRuns \cup {[AnsweredRun EXCEPT ![1] = "duplicate key"]} :
        HistoryRequest("aapl", from_date, to_date, read_run, history, save_run, TRUE)
NextHist == HistoryAsked
SpecHist == InitCache /\ [][NextHist]_vars

\* Position lists saved by alice, who owns portfolios 1 and 2.
SaveAsked == \E t \in Tokens, ps \in SubmittedLists,
                p \in PortfolioIds \cup {NoPortfolio}, f \in 0..2 :
                 PositionsSubmitted(t, ps, p, f)
NextSave == SaveAsked
SpecSave == InitOwn /\ [][NextSave]_vars

\* The background job over three users, with failures at every step.
InitJob == ValIdle /\ AppInit /\ JobInit
UserBegun == \E raises \in BOOLEAN : JobBeginUser(raises)
PortfolioValued == \E outcome \in {"stored", "not stored", "failed"} :
                       JobValuePortfolio(outcome)
JobStarted == \E raises \in BOOLEAN : JobStart(raises)
NextJob ==
    \/ JobStarted
    \/ UserBegun
    \/ SubmitBatch
    \/ Fetch
    \/ FetchDone
    \/ CollectResult
    \/ ExitBatch
    \/ StartValuation
    \/ PortfolioValued
    \/ JobRespond
SpecJob == InitJob /\ [][NextJob]_vars

\* The session table beside the table of the execution without the sweep.
CreateCalled == \E u \in UserIds : SessionCreated(u, "alice")
ValidateCalled == \E t \in Tokens : SessionValidated(t)
RevokeCalled == \E t \in Tokens : SessionRevoked(t)
SweepClock == \E d \in SweepSteps : SweepTick(d)
NextSweep ==
    \/ CreateCalled
    \/ ValidateCalled
    \/ RevokeCalled
    \/ SweepClock
SpecSweep == InitSess /\ [][NextSweep]_vars

\* Registration, create and rename with every kind of ill-formed input.
RegistrationAsked ==
    \E u \in RegistrationUsernames, p \in RegistrationPasswords,
       n \in RegistrationNames, f \in 0..3 : RegistrationRequest(u, p, n, f)
CreateNamed == \E t \in Tokens, n \in RegistrationNames, f \in 0..3 :
    /\ create_user_portfolio_endpoint(t, n, f)
    /\ Answer("create", t, NoPortfolio, create_response(t, n, f))
    /\ UNCHANGED sideVars
RenameNamed == \E t \in Tokens, p \in PortfolioIds, n \in RegistrationNames, f \in 0..3 :
    /\ rename_portfolio_endpoint(t, p, n, f)
    /\ Answer("rename", t, p, rename_response(t, p, n, f))
    /\ UNCHANGED sideVars
NextReg ==
    \/ RegistrationAsked
SpecReg == InitCap /\ [][NextReg]_vars

\* Every handler that stores a portfolio name, with names of every length.
RegistrationNamed ==
    \E u \in {"alice", "bob"}, n \in RegistrationNames :
        RegistrationRequest(u, StrongPassword, n, 0)
NextNames ==
    \/ RegistrationNamed
    \/ CreateNamed
    \/ RenameNamed
SpecNames == InitCap /\ [][NextNames]_vars

\* Delete requests of one user in flight together, the user owning two or
\* three portfolios.
InitRace == InitOwn \/ InitDel
DeleteArrives == \E r \in Requests, t \in Tokens, p \in PortfolioIds : DeleteBegin(r, t, p)
DeleteCounts == \E r \in Requests : DeleteCount(r)
DeleteDeletes == \E r \in Requests : DeleteRow(r)
DeleteSelectsFirst == \E r \in Requests : DeleteFirst(r)
DeletePromotes == \E r \in Requests : DeletePromote(r)
NextRace ==
    \/ DeleteArrives
    \/ DeleteCounts
    \/ DeleteDeletes
    \/ DeleteSelectsFirst
    \/ DeletePromotes
SpecRace == InitRace /\ [][NextRace]_vars

\* Create requests of one user in flight together, the user owning two,
\* three or four portfolios.
InitFour ==
    /\ ValIdle /\ BatchIdle
    /\ users = (1 :> [username |-> "alice", password_hash |-> hash_password(StrongPassword)]
                @@ 2 :> [username |-> "bob", password_hash |-> hash_password(StrongPassword)])
    /\ portfolios = (1 :> OwnRow(1, TRUE) @@ 2 :> OwnRow(1, FALSE) @@ 3 :> OwnRow(2, TRUE)
                     @@ 4 :> OwnRow(1, FALSE) @@ 5 :> OwnRow(1, FALSE))
    /\ next_portfolio_id = 6
    /\ now = CLEANUP_INTERVAL_SECONDS
    /\ last_cleanup_time = 0
    /\ active_sessions = OwnSessions
    /\ issued = OwnSessions
    /\ revoked = {}
    /\ rejected = {}
    /\ ticks = 0
    /\ response = NoResponse
    /\ sel = SelIdle
    /\ price_rows = EmptyBag
    /\ cache_call = NoCall
    /\ stock_call = NoCall
    /\ request = NoCall
    /\ unswept = <<>>
InitCreateRace == InitOwn \/ InitDel \/ InitFour
CreateArrives ==
    \E r \in Requests, t \in Tokens, n \in RegistrationNames \cup NewNames :
        CreateBegin(r, t, n)
CreateInserts == \E r \in Requests : CreateInsert(r)
NextCreateRace ==
    \/ CreateArrives
    \/ CreateInserts
SpecCreateRace == InitCreateRace /\ [][NextCreateRace]_vars
=============================================================================
